---- MODULE Spec2Model ----
(***************************************************************************)
(* State-machine model of the statistics service: the stats collector      *)
(* (refreshClipStats, getOrFetchStats, batchRefreshStats) over the Redis    *)
(* stats cache and the event publisher, the weekly rankings engine over     *)
(* its two tables, and the bot detector with its publishing wrapper.        *)
(***************************************************************************)
EXTENDS Integers, Sequences, FiniteSets, TLC

VARIABLES
    cache,      \* Redis: cache key -> None or [value, ttl] (ttl = seconds left)
    proc,       \* one record per in-flight stats-collector call
    weeklyClipRanking,      \* table: <<weekStart, submissionId>> -> row or None
    weeklyCampaignRanking,  \* table: <<weekStart, campaignId>> -> row or None
    rankRun,    \* one record per ranking calculation
    bot,        \* the runBotDetection call in flight
    msg,        \* the message the event consumer is working on
    campaignCache,  \* table campaign_cache: campaignId -> row or None
    now,        \* the clock read by new Date()
    sched,      \* the two cron jobs: position, tick and error counters
    life        \* process lifecycle: connections, shutdown runs, step log

statsVars == <<cache, proc>>
rankVars == <<weeklyClipRanking, weeklyCampaignRanking, rankRun>>
consumerVars == <<msg, campaignCache, now>>
sysVars == <<sched, life>>
\* what the stats collector, the rankings engine and the bot detector leave
\* alone besides each other's state
auxVars == <<consumerVars, sysVars>>
vars == <<cache, proc, weeklyClipRanking, weeklyCampaignRanking, rankRun, bot,
          msg, campaignCache, now, sched, life>>

\* null / undefined / absent (a record, so that it compares with records)
None == [absent |-> TRUE]

(***************************************************************************)
(* Stats collector: constants and input domains                             *)
(***************************************************************************)
CACHE_TTL_SECONDS == 3600
BatchDelayMs == 100
\* Seconds one Tick lets pass.
TickSeconds == 1800
\* Longest clip list handed to batchRefreshStats.
MaxClips == 3

Procs == {"p1", "p2"}

\* case labels of the switch in fetchPlatformStats
KnownPlatforms == {"YOUTUBE", "TIKTOK", "INSTAGRAM", "TWITTER"}
\* adapters whose errors reach fetchPlatformStats: getYouTubeStats and
\* getTikTokStats rethrow; the INSTAGRAM case and getTwitterStats catch
\* every error and fall back to zeros
ThrowingPlatforms == {"YOUTUBE", "TIKTOK"}
\* adapters that answer a failed upstream call with zeros
SwallowingPlatforms == {"INSTAGRAM", "TWITTER"}

\* clips known to clip-service: {id, platform, videoId}; "youtube" is a
\* platform string the switch does not know
Clips == {
    [id |-> "s1", platform |-> "TIKTOK",    videoId |-> "xyz"],
    [id |-> "s2", platform |-> "INSTAGRAM", videoId |-> "reel1"],
    [id |-> "s3", platform |-> "youtube",   videoId |-> "abc"] }

Stats(v, l, c, s, t) ==
    [views |-> v, likes |-> l, comments |-> c, shares |-> s, thumbnailUrl |-> t]

ZeroStats(t) == Stats(0, 0, 0, 0, t)

\* what fetchPlatformStats can return for a platform
AdapterResults(platform) ==
    CASE platform = "YOUTUBE"   -> {Stats(100, 10, 2, 0, "undefined")}
      [] platform = "TIKTOK"    -> {Stats(1000, 80, 20, 5, "url"),
                                    ZeroStats("undefined")}
      [] platform = "INSTAGRAM" -> {ZeroStats("null")}
      [] platform = "TWITTER"   -> {Stats(50, 5, 1, 2, "url"),
                                    ZeroStats("null")}
      [] OTHER                  -> {}

\* getCacheKey without the platform segment
getCacheKey_VideoOnly(platform, videoId) == <<"stats", videoId>>

\* `stats:${platform}:${videoId}`
getCacheKey(platform, videoId) == <<"stats", platform, videoId>>

KeyOf(clip) == getCacheKey(clip.platform, clip.videoId)

\* clips only the event consumer meets
HandlerClips == {
    [id |-> "s4", platform |-> "YOUTUBE", videoId |-> "yt1"],
    [id |-> "s5", platform |-> "TWITTER", videoId |-> "tw1"] }

AllClips == Clips \cup HandlerClips

\* platform strings that match no case of the switch in fetchPlatformStats
UnsupportedPlatforms == {"youtube", "tiktok", "Instagram", "FACEBOOK", ""}

UnsupportedClips ==
    {[id |-> "s6", platform |-> pf, videoId |-> "v6"] :
        pf \in UnsupportedPlatforms}

CacheKeys == {KeyOf(clip) : clip \in AllClips \cup UnsupportedClips}

\* JSON.stringify drops a property whose value is undefined
JSONstringify(stats) ==
    IF stats.thumbnailUrl = "undefined"
    THEN [views |-> stats.views, likes |-> stats.likes,
          comments |-> stats.comments, shares |-> stats.shares]
    ELSE [views |-> stats.views, likes |-> stats.likes,
          comments |-> stats.comments, shares |-> stats.shares,
          thumbnailUrl |-> stats.thumbnailUrl]

\* JSON.parse; reading a property the text does not hold gives undefined
JSONparse(text) ==
    [views |-> text.views, likes |-> text.likes,
     comments |-> text.comments, shares |-> text.shares,
     thumbnailUrl |-> IF "thumbnailUrl" \in DOMAIN text
                      THEN text.thumbnailUrl ELSE "undefined"]

\* Engagement without the test of views: the quotient whatever views is
Engagement_Unguarded(stats) ==
    [num |-> stats.likes + stats.comments, den |-> stats.views]

\* engagement as the exact quotient num/den
Engagement(stats) ==
    IF stats.views > 0
    THEN [num |-> stats.likes + stats.comments, den |-> stats.views]
    ELSE [num |-> 0, den |-> 1]

\* StatsEvents.updated(...)
StatsUpdated(submissionId, stats) ==
    [type |-> "stats.updated", clipId |-> submissionId,
     views |-> stats.views, likes |-> stats.likes,
     comments |-> stats.comments, shares |-> stats.shares,
     engagement |-> Engagement(stats)]

Effect(call, ok, arg) == [call |-> call, ok |-> ok, arg |-> arg]

IdleProc ==
    [op |-> "none", pc |-> "idle", clip |-> None, stats |-> None,
     seen |-> None, readOk |-> TRUE, cached |-> None, wrote |-> FALSE,
     upstream |-> "none", fetchedAt |-> 0, publishedAt |-> 0,
     log |-> <<>>, outcome |-> "pending", result |-> None,
     clips |-> <<>>, i |-> 0, successCount |-> 0, failCount |-> 0,
     elapsedMs |-> 0, timeline |-> <<>>]

StatsInit ==
    /\ cache = [k \in CacheKeys |-> None]
    /\ proc = [c \in Procs |-> IdleProc]

Free(c) == proc[c].pc \in {"idle", "done"}

(***************************************************************************)
(* refreshClipStats, inlined into its callers as the code runs it           *)
(***************************************************************************)
\* entry of refreshClipStats(clip.id, clip.platform, clip.videoId) in `p`
EnterRefresh(p, clip) ==
    [p EXCEPT !.pc = "fetch", !.clip = clip, !.stats = None,
              !.wrote = FALSE, !.upstream = "none", !.log = <<>>,
              !.fetchedAt = 0, !.publishedAt = 0]

\* the pause done: next clip of the batch, or return the counters
AfterPause(p) ==
    IF p.i < Len(p.clips)
    THEN EnterRefresh([p EXCEPT !.i = p.i + 1], p.clips[p.i + 1])
    ELSE [p EXCEPT !.pc = "done", !.outcome = "ok",
                   !.result = [successCount |-> p.successCount,
                               failCount |-> p.failCount]]

\* refreshClipStats returned `p.stats` to its caller
Returned(p) ==
    IF p.op = "batch"
    THEN [p EXCEPT !.pc = "pause", !.successCount = p.successCount + 1,
                   !.timeline = Append(p.timeline,
                       [kind |-> "refresh", clip |-> p.clip, threw |-> FALSE,
                        upstream |-> p.upstream, at |-> p.elapsedMs])]
    ELSE [p EXCEPT !.pc = "done", !.outcome = "ok", !.result = p.stats]

\* Thrown with the batch loop left at the first failure
Thrown_AbortsBatch(p) ==
    IF p.op = "batch"
    THEN [p EXCEPT !.pc = "done", !.outcome = "ok",
                   !.failCount = p.failCount + 1,
                   !.timeline = Append(p.timeline,
                       [kind |-> "refresh", clip |-> p.clip, threw |-> TRUE,
                        upstream |-> p.upstream, at |-> p.elapsedMs]),
                   !.result = [successCount |-> p.successCount,
                               failCount |-> p.failCount + 1]]
    ELSE [p EXCEPT !.pc = "done", !.outcome = "threw", !.result = None]

\* refreshClipStats threw to its caller
Thrown(p) ==
    IF p.op = "batch"
    THEN [p EXCEPT !.pc = "pause", !.failCount = p.failCount + 1,
                   !.timeline = Append(p.timeline,
                       [kind |-> "refresh", clip |-> p.clip, threw |-> TRUE,
                        upstream |-> p.upstream, at |-> p.elapsedMs])]
    ELSE [p EXCEPT !.pc = "done", !.outcome = "threw", !.result = None]

\* a direct call of refreshClipStats (event handler, POST /stats/refresh)
RefreshClipStats(c, clip) ==
    /\ Free(c)
    /\ proc' = [proc EXCEPT ![c] =
                  EnterRefresh([IdleProc EXCEPT !.op = "refresh"], clip)]
    /\ UNCHANGED <<cache, rankVars, bot, auxVars>>

\* FetchReturns with the cache write left out
FetchReturns_SkipsCache(c, stats) ==
    /\ proc[c].pc = "fetch"
    /\ proc[c].clip.platform \in KnownPlatforms
    /\ stats \in AdapterResults(proc[c].clip.platform)
    /\ proc' = [proc EXCEPT ![c] =
                  [@ EXCEPT !.pc = "publish", !.stats = stats,
                            !.fetchedAt = now,
                            !.log = Append(@, Effect("adapter", TRUE,
                                                     proc[c].clip.platform))]]
    /\ UNCHANGED <<cache, rankVars, bot, auxVars>>

\* fetchPlatformStats: the adapter of the platform returned `stats`
FetchReturns(c, stats) ==
    /\ proc[c].pc = "fetch"
    /\ proc[c].clip.platform \in KnownPlatforms
    /\ stats \in AdapterResults(proc[c].clip.platform)
    /\ proc' = [proc EXCEPT ![c] =
                  [@ EXCEPT !.pc = "cache", !.stats = stats,
                            !.upstream = "ok", !.fetchedAt = now,
                            !.log = Append(@, Effect("adapter", TRUE,
                                                     proc[c].clip.platform))]]
    /\ UNCHANGED <<cache, rankVars, bot, auxVars>>

\* FetchFallsBack with the failure rethrown, as the YOUTUBE case does
FetchFallsBack_Throws(c) ==
    /\ proc[c].pc = "fetch"
    /\ proc[c].clip.platform \in SwallowingPlatforms
    /\ proc' = [proc EXCEPT ![c] =
                  Thrown([@ EXCEPT !.upstream = "failed",
                                   !.log = Append(@, Effect("adapter", FALSE,
                                                     proc[c].clip.platform))])]
    /\ UNCHANGED <<cache, rankVars, bot, auxVars>>

\* fetchPlatformStats: the upstream call failed and the adapter (INSTAGRAM:
\* also the case's own catch) answered with zeros
FetchFallsBack(c) ==
    /\ proc[c].pc = "fetch"
    /\ proc[c].clip.platform \in SwallowingPlatforms
    /\ proc' = [proc EXCEPT ![c] =
                  [@ EXCEPT !.pc = "cache", !.stats = ZeroStats("null"),
                            !.upstream = "failed", !.fetchedAt = now,
                            !.log = Append(@, Effect("adapter", TRUE,
                                                     proc[c].clip.platform))]]
    /\ UNCHANGED <<cache, rankVars, bot, auxVars>>

\* fetchPlatformStats: the adapter threw, the error is logged and rethrown
FetchAdapterThrows(c) ==
    /\ proc[c].pc = "fetch"
    /\ proc[c].clip.platform \in ThrowingPlatforms
    /\ proc' = [proc EXCEPT ![c] =
                  Thrown([@ EXCEPT !.upstream = "failed",
                                   !.log = Append(@, Effect("adapter", FALSE,
                                                     proc[c].clip.platform))])]
    /\ UNCHANGED <<cache, rankVars, bot, auxVars>>

\* FetchUnsupported with a default case that answers zeros, as the TWITTER
\* case does for a missing result
FetchUnsupported_Zeros(c) ==
    /\ proc[c].pc = "fetch"
    /\ proc[c].clip.platform \notin KnownPlatforms
    /\ proc' = [proc EXCEPT ![c] =
                  [@ EXCEPT !.pc = "cache", !.stats = ZeroStats("null"),
                            !.fetchedAt = now]]
    /\ UNCHANGED <<cache, rankVars, bot, auxVars>>

\* fetchPlatformStats: default branch, thrown before any adapter is called
FetchUnsupported(c) ==
    /\ proc[c].pc = "fetch"
    /\ proc[c].clip.platform \notin KnownPlatforms
    /\ proc' = [proc EXCEPT ![c] = Thrown(@)]
    /\ UNCHANGED <<cache, rankVars, bot, auxVars>>

\* RedisSetex with redis.set in place of redis.setex: no expiry is set
RedisSetex_NoExpiry(c) ==
    /\ proc[c].pc = "cache"
    /\ cache' = [cache EXCEPT ![KeyOf(proc[c].clip)] =
                   [value |-> JSONstringify(proc[c].stats),
                    ttl |-> 2 * CACHE_TTL_SECONDS]]
    /\ proc' = [proc EXCEPT ![c] =
                  [@ EXCEPT !.pc = "publish", !.wrote = TRUE,
                            !.log = Append(@, Effect("setex", TRUE,
                                     [key |-> KeyOf(proc[c].clip),
                                      ttl |-> 2 * CACHE_TTL_SECONDS,
                                      value |-> JSONstringify(proc[c].stats)]))]]
    /\ UNCHANGED <<rankVars, bot, auxVars>>

\* redis.setex(cacheKey, CACHE_TTL_SECONDS, JSON.stringify(stats)) went through
RedisSetex(c) ==
    /\ proc[c].pc = "cache"
    /\ cache' = [cache EXCEPT ![KeyOf(proc[c].clip)] =
                   [value |-> JSONstringify(proc[c].stats),
                    ttl |-> CACHE_TTL_SECONDS]]
    /\ proc' = [proc EXCEPT ![c] =
                  [@ EXCEPT !.pc = "publish", !.wrote = TRUE,
                            !.log = Append(@, Effect("setex", TRUE,
                                     [key |-> KeyOf(proc[c].clip),
                                      ttl |-> CACHE_TTL_SECONDS,
                                      value |-> JSONstringify(proc[c].stats)]))]]
    /\ UNCHANGED <<rankVars, bot, auxVars>>

\* RedisSetexFails without the try/catch: the error leaves refreshClipStats
RedisSetexFails_Propagates(c) ==
    /\ proc[c].pc = "cache"
    /\ proc' = [proc EXCEPT ![c] =
                  Thrown([@ EXCEPT !.log = Append(@, Effect("setex", FALSE,
                                     [key |-> KeyOf(proc[c].clip),
                                      ttl |-> CACHE_TTL_SECONDS,
                                      value |-> JSONstringify(proc[c].stats)]))])]
    /\ UNCHANGED <<cache, rankVars, bot, auxVars>>

\* redis.setex threw: logged, swallowed
RedisSetexFails(c) ==
    /\ proc[c].pc = "cache"
    /\ proc' = [proc EXCEPT ![c] =
                  [@ EXCEPT !.pc = "publish",
                            !.log = Append(@, Effect("setex", FALSE,
                                     [key |-> KeyOf(proc[c].clip),
                                      ttl |-> CACHE_TTL_SECONDS,
                                      value |-> JSONstringify(proc[c].stats)]))]]
    /\ UNCHANGED <<cache, rankVars, bot, auxVars>>

\* PublishUpdated without the try/catch: a failed publish leaves
\* refreshClipStats
PublishUpdated_Propagates(c, ok) ==
    /\ proc[c].pc = "publish"
    /\ proc' = [proc EXCEPT ![c] =
                  IF ok
                  THEN Returned([@ EXCEPT !.publishedAt = now,
                              !.log = Append(@, Effect("publish", ok,
                              StatsUpdated(proc[c].clip.id, proc[c].stats)))])
                  ELSE Thrown([@ EXCEPT !.log = Append(@, Effect("publish", ok,
                              StatsUpdated(proc[c].clip.id, proc[c].stats)))])]
    /\ UNCHANGED <<cache, rankVars, bot, auxVars>>

\* publisher.publish(event) resolved or threw (logged, swallowed); then the
\* function returns the fetched stats. fetchedAt and publishedAt are the
\* instants at which the fetch and the publish of the call completed
PublishUpdated(c, ok) ==
    /\ proc[c].pc = "publish"
    /\ proc' = [proc EXCEPT ![c] =
                  Returned([@ EXCEPT !.publishedAt = IF ok THEN now ELSE 0,
                              !.log = Append(@, Effect("publish", ok,
                              StatsUpdated(proc[c].clip.id, proc[c].stats)))])]
    /\ UNCHANGED <<cache, rankVars, bot, auxVars>>

\* the timeout, in ms, of the HTTP request an adapter sends; 0: the request
\* carries none (fetch of getYouTubeStats, axios.get of getTikTokStats and
\* axios.post of getInstagramStats are called without one)
RequestTimeoutMs(platform) ==
    CASE platform = "TWITTER" -> 5000
      [] OTHER -> 0

\* fetchPlatformStats: the upstream never answers. A request with a timeout
\* fails when it runs out and the adapter deals with it as with any failed
\* request; one without stays pending, and so does the call
UpstreamSilent(c) ==
    /\ proc[c].pc = "fetch"
    /\ proc[c].clip.platform \in KnownPlatforms
    /\ proc' = [proc EXCEPT ![c] =
          IF RequestTimeoutMs(proc[c].clip.platform) = 0
          THEN [@ EXCEPT !.pc = "hung", !.upstream = "silent"]
          ELSE IF proc[c].clip.platform \in SwallowingPlatforms
          THEN [@ EXCEPT !.pc = "cache", !.stats = ZeroStats("null"),
                         !.upstream = "silent", !.fetchedAt = now,
                         !.log = Append(@, Effect("adapter", TRUE,
                                                  proc[c].clip.platform))]
          ELSE Thrown([@ EXCEPT !.upstream = "silent",
                                !.log = Append(@, Effect("adapter", FALSE,
                                               proc[c].clip.platform))])]
    /\ UNCHANGED <<cache, rankVars, bot, auxVars>>

(***************************************************************************)
(* Platform adapters: from the upstream response to PlatformStats           *)
(***************************************************************************)
\* a counter of an upstream response body: missing, or a number
Absent == [present |-> FALSE, value |-> 0]

Field(n) == [present |-> TRUE, value |-> n]

\* response bodies: counters as the upstream sends them, negative included
UpstreamBodies == {
    [views |-> Field(1000), likes |-> Field(80),  comments |-> Field(20),
     shares |-> Field(5)],
    [views |-> Absent,      likes |-> Field(80),  comments |-> Absent,
     shares |-> Absent],
    [views |-> Field(-5),   likes |-> Field(80),  comments |-> Field(20),
     shares |-> Field(0)],
    [views |-> Field(1000), likes |-> Field(-5),  comments |-> Field(20),
     shares |-> Field(-1)] }

\* x ?? 0
Nullish(f) == IF f.present THEN f.value ELSE 0

\* x || 0, and parseInt(x || '0', 10) for a counter sent as decimal text
OrZero(f) == IF f.present /\ f.value # 0 THEN f.value ELSE 0

getTikTokStats(body) ==
    Stats(Nullish(body.views), Nullish(body.likes), Nullish(body.comments),
          Nullish(body.shares), "url")

\* shares is retweet_count plus quote_count, the latter taken as missing
getTwitterStats(body) ==
    Stats(OrZero(body.views), OrZero(body.likes), OrZero(body.comments),
          OrZero(body.shares) + OrZero(Absent), "url")

getInstagramStats(body) ==
    Stats(OrZero(body.views), OrZero(body.likes), OrZero(body.comments), 0,
          "null")

getYouTubeStats(body) ==
    Stats(OrZero(body.views), OrZero(body.likes), OrZero(body.comments), 0,
          "undefined")

\* the tuple fetchPlatformStats builds from the adapter's answer
AdapterStats(platform, body) ==
    CASE platform = "YOUTUBE"   -> getYouTubeStats(body)
      [] platform = "TIKTOK"    -> getTikTokStats(body)
      [] platform = "INSTAGRAM" -> getInstagramStats(body)
      [] platform = "TWITTER"   -> getTwitterStats(body)

\* fetchPlatformStats: the upstream answered with `body` and the adapter
\* turned it into stats
FetchFromUpstream(c, body) ==
    /\ proc[c].pc = "fetch"
    /\ proc[c].clip.platform \in KnownPlatforms
    /\ proc' = [proc EXCEPT ![c] =
          [@ EXCEPT !.pc = "cache",
                    !.stats = AdapterStats(proc[c].clip.platform, body),
                    !.upstream = "ok", !.fetchedAt = now,
                    !.log = Append(@, Effect("adapter", TRUE,
                                             proc[c].clip.platform))]]
    /\ UNCHANGED <<cache, rankVars, bot, auxVars>>

(***************************************************************************)
(* getInstagramStats: the request, the challenge and the second request     *)
(***************************************************************************)
\* mediaId as the caller passes it: a reel id, or a full URL
MediaIds == {[http |-> FALSE, text |-> "reel1"], [http |-> TRUE, text |-> "u1"]}

\* the URL the request asks for: mediaId itself when it starts with "http",
\* else the reel URL built around it
TargetUrl(mediaId) ==
    IF mediaId.http
    THEN [prefix |-> "", id |-> mediaId.text, suffix |-> ""]
    ELSE [prefix |-> "https://www.instagram.com/reel/", id |-> mediaId.text,
          suffix |-> "/"]

\* Number.prototype.toString: the decimal text of n
toString(n) == [decimal |-> n]

NoHeader == [decimal |-> -1]

\* an axios.post to the API endpoint; the base headers are the same in both
Post(payload, xCompute, xTimestamp) ==
    [payload |-> payload, xCompute |-> xCompute, xTimestamp |-> xTimestamp]

Challenges ==
    {None,
     [timestamp |-> Field(17), expectedCompute |-> Field(42)],
     [timestamp |-> Field(17), expectedCompute |-> Absent]}

\* response bodies of the API: an error text ("none": no error field), a
\* challenge, the counters
InstagramResponses ==
    {[error |-> e, challenge |-> ch, counters |-> b] :
        e \in {"none", "COMPUTE_REQUIRED", "RATE_LIMITED"},
        ch \in Challenges,
        b \in UpstreamBodies}

\* the catch of getInstagramStats: zeros as the fallback
InstagramFallback(p) ==
    [p EXCEPT !.pc = "done", !.outcome = "ok", !.stats = ZeroStats("null"),
              !.result = ZeroStats("null")]

\* getInstagramStats with the last response in hand: an error field throws
\* into the catch, else the counters are extracted
AfterInstagramResponse(p, data) ==
    IF data.error # "none"
    THEN InstagramFallback(p)
    ELSE [p EXCEPT !.pc = "done", !.outcome = "ok",
                   !.stats = getInstagramStats(data.counters),
                   !.result = getInstagramStats(data.counters)]

\* getInstagramStats up to its first axios.post
InstagramFirstPost(c, mediaId) ==
    /\ Free(c)
    /\ proc' = [proc EXCEPT ![c] =
          [IdleProc EXCEPT
              !.op = "instagram", !.pc = "post1",
              !.log = <<Effect("post", TRUE,
                          Post([url |-> TargetUrl(mediaId), type |-> "reels"],
                               NoHeader, NoHeader))>>]]
    /\ UNCHANGED <<cache, rankVars, bot, auxVars>>

\* AfterFirstResponse that sends the second request after any error
AfterFirstResponse_RetriesAnyError(p, data) ==
    LET seen == [p EXCEPT !.log = Append(@, Effect("response", TRUE, data))]
    IN  IF data.error # "none" /\ data.challenge # None
        THEN IF data.challenge.expectedCompute.present
                /\ data.challenge.timestamp.present
             THEN [seen EXCEPT !.pc = "post2",
                      !.log = Append(@, Effect("post", TRUE,
                          Post(p.log[1].arg.payload,
                               toString(data.challenge.expectedCompute.value),
                               toString(data.challenge.timestamp.value))))]
             ELSE InstagramFallback(seen)
        ELSE AfterInstagramResponse(seen, data)

\* the first response arrived: a COMPUTE_REQUIRED error with a challenge
\* is answered by the second post, which echoes the challenge in its headers
\* (toString of a missing value is a TypeError, caught); any other response
\* is the last one
AfterFirstResponse(p, data) ==
    LET seen == [p EXCEPT !.log = Append(@, Effect("response", TRUE, data))]
    IN  IF data.error = "COMPUTE_REQUIRED" /\ data.challenge # None
        THEN IF data.challenge.expectedCompute.present
                /\ data.challenge.timestamp.present
             THEN [seen EXCEPT !.pc = "post2",
                      !.log = Append(@, Effect("post", TRUE,
                          Post(p.log[1].arg.payload,
                               toString(data.challenge.expectedCompute.value),
                               toString(data.challenge.timestamp.value))))]
             ELSE InstagramFallback(seen)
        ELSE AfterInstagramResponse(seen, data)

InstagramFirstResponse(c, data) ==
    /\ proc[c].op = "instagram" /\ proc[c].pc = "post1"
    /\ proc' = [proc EXCEPT ![c] = AfterFirstResponse(@, data)]
    /\ UNCHANGED <<cache, rankVars, bot, auxVars>>

\* the second response arrived: it is the last one whatever it holds
InstagramSecondResponse(c, data) ==
    /\ proc[c].op = "instagram" /\ proc[c].pc = "post2"
    /\ proc' = [proc EXCEPT ![c] =
          AfterInstagramResponse(
              [@ EXCEPT !.log = Append(@, Effect("response", TRUE, data))],
              data)]
    /\ UNCHANGED <<cache, rankVars, bot, auxVars>>

\* axios.post rejected (network error, or a status validateStatus refuses):
\* caught, zeros
InstagramPostFails(c) ==
    /\ proc[c].op = "instagram" /\ proc[c].pc \in {"post1", "post2"}
    /\ proc' = [proc EXCEPT ![c] =
          InstagramFallback(
              [@ EXCEPT !.log = Append(@, Effect("response", FALSE, None))])]
    /\ UNCHANGED <<cache, rankVars, bot, auxVars>>

(***************************************************************************)
(* getCachedStats / getOrFetchStats                                         *)
(***************************************************************************)
\* getCachedStats that never finds the entry
getCachedStats_AlwaysMiss(entry, readOk) == None

\* getCachedStats: null on a miss, and when redis.get or JSON.parse throws
\* (readOk false)
getCachedStats(entry, readOk) ==
    IF readOk /\ entry # None THEN JSONparse(entry.value) ELSE None

\* AfterCacheRead that returns whatever getCachedStats answered
AfterCacheRead_NoFallback(p, clip) ==
    [p EXCEPT !.pc = "done", !.clip = clip, !.outcome = "ok",
              !.result = p.cached]

\* what getOrFetchStats does with the answer of getCachedStats
AfterCacheRead(p, clip) ==
    IF p.cached # None
    THEN [p EXCEPT !.pc = "done", !.clip = clip, !.outcome = "ok",
                   !.result = p.cached]
    ELSE EnterRefresh(p, clip)

\* the tuple a cache entry holds
Held(entry) == IF entry = None THEN None ELSE JSONparse(entry.value)

GetOrFetchStats(c, clip, readOk) ==
    /\ Free(c)
    /\ proc' = [proc EXCEPT ![c] =
                  AfterCacheRead(
                      [IdleProc EXCEPT !.op = "getOrFetch",
                                       !.seen = Held(cache[KeyOf(clip)]),
                                       !.readOk = readOk,
                                       !.cached = getCachedStats(
                                                    cache[KeyOf(clip)], readOk)],
                      clip)]
    /\ UNCHANGED <<cache, rankVars, bot, auxVars>>

(***************************************************************************)
(* batchRefreshStats                                                        *)
(***************************************************************************)
RECURSIVE SeqsUpTo(_, _)
SeqsUpTo(S, n) ==
    IF n = 0 THEN {<<>>}
    ELSE LET shorter == SeqsUpTo(S, n - 1)
         IN shorter \cup {Append(s, x) : s \in shorter, x \in S}

BatchRefreshStats(c, clips) ==
    /\ Free(c)
    /\ proc' = [proc EXCEPT ![c] =
                  IF clips = <<>>
                  THEN AfterPause([IdleProc EXCEPT !.op = "batch"])
                  ELSE EnterRefresh([IdleProc EXCEPT !.op = "batch",
                                                     !.clips = clips, !.i = 1],
                                    clips[1])]
    /\ UNCHANGED <<cache, rankVars, bot, auxVars>>

\* Pause with the delay placed inside the try block: skipped after a failure
Pause_OnlyAfterSuccess(c) ==
    /\ proc[c].pc = "pause"
    /\ proc' = [proc EXCEPT ![c] =
                  IF proc[c].timeline[Len(proc[c].timeline)].threw
                  THEN AfterPause(@)
                  ELSE AfterPause([@ EXCEPT !.elapsedMs = @ + BatchDelayMs,
                                       !.timeline = Append(@,
                                           [kind |-> "pause", clip |-> None,
                                            threw |-> FALSE,
                                            at |-> proc[c].elapsedMs])])]
    /\ UNCHANGED <<cache, rankVars, bot, auxVars>>

\* await new Promise(resolve => setTimeout(resolve, 100)) elapsed
Pause(c) ==
    /\ proc[c].pc = "pause"
    /\ proc' = [proc EXCEPT ![c] =
                  AfterPause([@ EXCEPT !.elapsedMs = @ + BatchDelayMs,
                                       !.timeline = Append(@,
                                           [kind |-> "pause", clip |-> None,
                                            threw |-> FALSE,
                                            at |-> proc[c].elapsedMs])])]
    /\ UNCHANGED <<cache, rankVars, bot, auxVars>>

(***************************************************************************)
(* Redis expiry                                                             *)
(***************************************************************************)
Aged(entry) ==
    IF entry = None \/ entry.ttl <= TickSeconds THEN None
    ELSE [entry EXCEPT !.ttl = @ - TickSeconds]

Tick ==
    /\ \E k \in CacheKeys : cache[k] # None
    /\ cache' = [k \in CacheKeys |-> Aged(cache[k])]
    /\ UNCHANGED <<proc, rankVars, bot, auxVars>>

(***************************************************************************)
(* Rankings engine                                                          *)
(***************************************************************************)
\* Longest list clip-service answers with.
MaxItems == 3
\* Ranking calculations started in one behaviour of SpecRankSeq.
MaxRuns == 2

RunIds == {"r1", "r2"}
Weeks == {"w1", "w2"}
RankedIds == {"a", "b", "c"}

\* the platform clip-service reports for a clip
PlatformOf(id) == IF id = "b" THEN "TIKTOK" ELSE "YOUTUBE"

\* engagement and avgEngagement are carried in tenths (1 is 0.1)
ClipData == {[id |-> id, platform |-> PlatformOf(id), views |-> v,
              likes |-> 10, engagement |-> e] :
                 id \in RankedIds, v \in {100, 200}, e \in {1, 2}}

CampaignData == {[id |-> id, totalViews |-> v, totalLikes |-> 10,
                  avgEngagement |-> e, clipsCount |-> 2] :
                     id \in RankedIds, v \in {100, 200}, e \in {1, 2}}

\* the clip lists of SpecRankSeq: one engagement value, distinct ids
SeqClipData == {x \in ClipData : x.engagement = 1}

DistinctIds(items) ==
    \A i, j \in 1..Len(items) : items[i].id = items[j].id => i = j

\* endOfWeek(start, { weekStartsOn: 1 })
endOfWeek(start) == <<"end", start>>

\* the comparator without its engagement tie-break
ClipCompare_ViewsOnly(a, b) == b.views - a.views

\* clips.sort comparator: a negative value puts a first
ClipCompare(a, b) ==
    IF b.views # a.views THEN b.views - a.views
    ELSE b.engagement - a.engagement

\* campaigns.sort comparator
CampaignCompare(a, b) ==
    IF b.totalViews # a.totalViews THEN b.totalViews - a.totalViews
    ELSE b.avgEngagement - a.avgEngagement

\* the comparator handed to sort by a run of that kind
Compare(kind, a, b) ==
    IF kind = "clip" THEN ClipCompare(a, b) ELSE CampaignCompare(a, b)

\* Array.prototype.sort: stable, so x goes behind every element that does
\* not compare after it
InsertStable(sorted, x, kind) ==
    LET k == Cardinality({j \in 1..Len(sorted) :
                            Compare(kind, sorted[j], x) <= 0})
    IN  SubSeq(sorted, 1, k) \o <<x>> \o SubSeq(sorted, k + 1, Len(sorted))

SortStable(items, kind) ==
    LET F[n \in 0..Len(items)] ==
            IF n = 0 THEN <<>> ELSE InsertStable(F[n - 1], items[n], kind)
    IN  F[Len(items)]

IdleRun ==
    [kind |-> "none", pc |-> "idle", start |-> "none", input |-> <<>>,
     ranked |-> <<>>, i |-> 0, outcome |-> "pending", runs |-> 0,
     failedAt |-> 0]

RankInit ==
    /\ weeklyClipRanking = [k \in Weeks \X RankedIds |-> None]
    /\ weeklyCampaignRanking = [k \in Weeks \X RankedIds |-> None]
    /\ rankRun = [r \in RunIds |-> IdleRun]

RunFree(r) == rankRun[r].pc \in {"idle", "done"}

\* the run after the answer of clip-service: empty -> return, else sort
AfterFetch(run, kind, start, items, ranked) ==
    IF Len(items) = 0
    THEN [run EXCEPT !.kind = kind, !.pc = "done", !.start = start,
                     !.input = items, !.ranked = <<>>, !.i = 0,
                     !.outcome = "ok", !.runs = @ + 1, !.failedAt = 0]
    ELSE [run EXCEPT !.kind = kind, !.pc = "upsert", !.start = start,
                     !.input = items, !.ranked = ranked, !.i = 1,
                     !.outcome = "pending", !.runs = @ + 1, !.failedAt = 0]

\* calculateWeeklyClipRankings up to the sort; start is weekStart or the
\* Monday of the current week
calculateWeeklyClipRankings(r, start, clips) ==
    /\ RunFree(r)
    /\ rankRun' = [rankRun EXCEPT ![r] =
                     AfterFetch(@, "clip", start, clips,
                                SortStable(clips, "clip"))]
    /\ UNCHANGED <<weeklyClipRanking, weeklyCampaignRanking, statsVars, bot, auxVars>>

calculateWeeklyCampaignRankings(r, start, campaigns) ==
    /\ RunFree(r)
    /\ rankRun' = [rankRun EXCEPT ![r] =
                     AfterFetch(@, "campaign", start, campaigns,
                                SortStable(campaigns, "campaign"))]
    /\ UNCHANGED <<weeklyClipRanking, weeklyCampaignRanking, statsVars, bot, auxVars>>

\* the axios.get of either calculation failed: logged and rethrown
RankingFetchFails(r, kind, start) ==
    /\ RunFree(r)
    /\ rankRun' = [rankRun EXCEPT ![r] =
                     [@ EXCEPT !.kind = kind, !.pc = "done", !.start = start,
                               !.input = <<>>, !.ranked = <<>>, !.i = 0,
                               !.outcome = "threw", !.runs = @ + 1,
                               !.failedAt = 0]]
    /\ UNCHANGED <<weeklyClipRanking, weeklyCampaignRanking, statsVars, bot, auxVars>>

\* the loop after the upsert of ranked[i]
AfterUpsert(run) ==
    IF run.i < Len(run.ranked)
    THEN [run EXCEPT !.i = @ + 1]
    ELSE [run EXCEPT !.pc = "done", !.outcome = "ok"]

\* prisma.weeklyClipRanking.upsert for ranked[i] with rank i
UpsertClipRanking(r) ==
    LET run == rankRun[r]
        clip == run.ranked[run.i]
        key == <<run.start, clip.id>>
        old == weeklyClipRanking[key]
    IN  /\ run.pc = "upsert" /\ run.kind = "clip"
        /\ weeklyClipRanking' = [weeklyClipRanking EXCEPT ![key] =
              IF old # None
              THEN [old EXCEPT !.views = clip.views, !.likes = clip.likes,
                               !.engagement = clip.engagement, !.rank = run.i]
              ELSE [weekStart |-> run.start, weekEnd |-> endOfWeek(run.start),
                    submissionId |-> clip.id, platform |-> clip.platform,
                    views |-> clip.views, likes |-> clip.likes,
                    engagement |-> clip.engagement, rank |-> run.i]]
        /\ rankRun' = [rankRun EXCEPT ![r] = AfterUpsert(@)]
        /\ UNCHANGED <<weeklyCampaignRanking, statsVars, bot, auxVars>>

\* prisma.weeklyCampaignRanking.upsert for ranked[i] with rank i
UpsertCampaignRanking(r) ==
    LET run == rankRun[r]
        campaign == run.ranked[run.i]
        key == <<run.start, campaign.id>>
        old == weeklyCampaignRanking[key]
    IN  /\ run.pc = "upsert" /\ run.kind = "campaign"
        /\ weeklyCampaignRanking' = [weeklyCampaignRanking EXCEPT ![key] =
              IF old # None
              THEN [old EXCEPT !.totalViews = campaign.totalViews,
                               !.totalLikes = campaign.totalLikes,
                               !.avgEngagement = campaign.avgEngagement,
                               !.clipsCount = campaign.clipsCount,
                               !.rank = run.i]
              ELSE [weekStart |-> run.start, weekEnd |-> endOfWeek(run.start),
                    campaignId |-> campaign.id,
                    totalViews |-> campaign.totalViews,
                    totalLikes |-> campaign.totalLikes,
                    avgEngagement |-> campaign.avgEngagement,
                    clipsCount |-> campaign.clipsCount, rank |-> run.i]]
        /\ rankRun' = [rankRun EXCEPT ![r] = AfterUpsert(@)]
        /\ UNCHANGED <<weeklyClipRanking, statsVars, bot, auxVars>>

\* UpsertFails with the upsert in a try block of its own: the failure is
\* noted and the loop goes on with the next item
UpsertFails_Continues(r) ==
    /\ rankRun[r].pc = "upsert"
    /\ rankRun' = [rankRun EXCEPT ![r] =
                     AfterUpsert([@ EXCEPT !.failedAt = rankRun[r].i])]
    /\ UNCHANGED <<weeklyClipRanking, weeklyCampaignRanking, statsVars, bot, auxVars>>

\* the upsert of ranked[i] threw (failedAt keeps its rank): logged, rethrown,
\* the loop is left
UpsertFails(r) ==
    /\ rankRun[r].pc = "upsert"
    /\ rankRun' = [rankRun EXCEPT ![r] =
                     [@ EXCEPT !.pc = "done", !.outcome = "threw",
                               !.failedAt = rankRun[r].i]]
    /\ UNCHANGED <<weeklyClipRanking, weeklyCampaignRanking, statsVars, bot, auxVars>>

\* getWeeklyClipRankings(weekStart, limit, platform): rows by rank ascending;
\* platform "none" stands for no platform filter
getWeeklyClipRankings(weekStart, platform) ==
    {weeklyClipRanking[k] : k \in {q \in Weeks \X RankedIds :
        /\ q[1] = weekStart
        /\ weeklyClipRanking[q] # None
        /\ platform # "none" => weeklyClipRanking[q].platform = platform}}

(***************************************************************************)
(* Bot detector: thresholds and input domains                               *)
(***************************************************************************)
\* engagementRatio in hundredths (0.4 is 40)
PLATFORM_THRESHOLDS ==
    [TIKTOK |->
        [viewsSpike |-> [high |-> 800, medium |-> 300],
         likesSpike |-> [high |-> 400, medium |-> 200],
         commentsSpike |-> [high |-> 500, medium |-> 250],
         engagementRatio |-> [high |-> 40, medium |-> 25],
         minViews |-> 500],
     INSTAGRAM |->
        [viewsSpike |-> [high |-> 600, medium |-> 250],
         likesSpike |-> [high |-> 350, medium |-> 180],
         commentsSpike |-> [high |-> 450, medium |-> 220],
         engagementRatio |-> [high |-> 35, medium |-> 20],
         minViews |-> 300],
     YOUTUBE |->
        [viewsSpike |-> [high |-> 700, medium |-> 280],
         likesSpike |-> [high |-> 380, medium |-> 190],
         commentsSpike |-> [high |-> 480, medium |-> 240],
         engagementRatio |-> [high |-> 38, medium |-> 22],
         minViews |-> 400],
     TWITTER |->
        [viewsSpike |-> [high |-> 700, medium |-> 280],
         likesSpike |-> [high |-> 380, medium |-> 190],
         commentsSpike |-> [high |-> 480, medium |-> 240],
         engagementRatio |-> [high |-> 38, medium |-> 22],
         minViews |-> 400]]

\* PLATFORM_THRESHOLDS is an object literal: a key of Object.prototype looks
\* up an inherited member, which is truthy and has no threshold fields
PrototypeKeys == {"constructor"}

Inherited == [inherited |-> TRUE]

\* PLATFORM_THRESHOLDS[platform] || PLATFORM_THRESHOLDS.YOUTUBE
Thresholds(platform) ==
    IF platform \in DOMAIN PLATFORM_THRESHOLDS
    THEN PLATFORM_THRESHOLDS[platform]
    ELSE IF platform \in PrototypeKeys
         THEN Inherited
         ELSE PLATFORM_THRESHOLDS["YOUTUBE"]

\* platform fields clip-service can answer with; "undefined": no such field
PlatformStrings ==
    {"TIKTOK", "INSTAGRAM", "YOUTUBE", "TWITTER", "FACEBOOK", "constructor",
     "undefined"}

\* a StatsHistoryEntry; hour is new Date(recordedAt).getHours()
Entry(v, l, c, h) ==
    [views |-> v, likes |-> l, comments |-> c, shares |-> 0, hour |-> h]

\* Longest history enumerated entry by entry.
MaxHistory == 2

HistoryEntries ==
    {Entry(0, 0, 0, 0), Entry(1000, 15, 0, 0), Entry(4500, 80, 3, 0),
     Entry(12000, 20, 0, 0), Entry(2000, 900, 200, 0),
     Entry(300, 150, 0, 0)}

\* hourly snapshots, newest first; entry j taken at hour 24 - j
Hourly(views) == [j \in 1..Len(views) |-> Entry(views[j], 10, 0, 24 - j)]

\* views growing by half every hour
SteadyHistory == Hourly(<<24300, 16200, 10800, 7200, 4800, 3200>>)

\* one acceleration far above the others
JumpHistory == Hourly(<<12000, 6000, 5900, 5800, 700>>)

\* 1000 views an hour, then none
StoppedHistory ==
    Hourly([j \in 1..12 |-> IF j <= 6 THEN 10000 ELSE 10000 - (j - 6) * 1000])

\* a day of snapshots with all the growth in the last hour
OneHourHistory == Hourly([j \in 1..24 |-> IF j = 1 THEN 26000 ELSE 20000])

\* four entries with one acceleration far above the other
ShortJumpHistory == Hourly(<<12000, 6000, 5900, 1800>>)

\* views growing by about a tenth every hour
TenPercentHistory == Hourly(<<2200, 2000, 1818, 1653, 1503, 1367>>)

\* hourly growth falling by 2000 views every hour
DeceleratingHistory == Hourly(<<17000, 16000, 13000, 8000, 1000>>)

LongHistories ==
    {SteadyHistory, JumpHistory, StoppedHistory, OneHourHistory,
     ShortJumpHistory, TenPercentHistory, DeceleratingHistory}

Histories == SeqsUpTo(HistoryEntries, MaxHistory) \cup LongHistories

\* bodies of GET /clips/{clipId}/stats-history; history None: no such field
Responses ==
    {[history |-> h, platform |-> pf] :
        h \in {[entries |-> entries] : entries \in Histories} \cup {None},
        pf \in PlatformStrings}

BotClipIds == {"s1", "s2"}

(***************************************************************************)
(* Bot detector: detection rules                                            *)
(***************************************************************************)
Infinity == [infinite |-> TRUE]

Quot(n, d) == [num |-> n, den |-> d]

\* growth in percent as the exact quotient num/den, den > 0, or Infinity
calculateGrowthRate(previous, current) ==
    IF previous = 0
    THEN IF current > 0 THEN Infinity ELSE Quot(0, 1)
    ELSE Quot((current - previous) * 100, previous)

\* rate > threshold
Exceeds(rate, threshold) ==
    IF rate = Infinity THEN TRUE ELSE rate.num > threshold * rate.den

Flag(type, severity, confidence) ==
    [type |-> type, severity |-> severity, confidence |-> confidence]

RECURSIVE Sum(_)
Sum(seq) == IF seq = <<>> THEN 0 ELSE Head(seq) + Sum(Tail(seq))

Abs(x) == IF x < 0 THEN -x ELSE x

Max(S) == CHOOSE x \in S : \A y \in S : x >= y

\* views[i] - views[i+1] over adjacent entries
Velocities(history) ==
    [i \in 1..(Len(history) - 1) |-> history[i].views - history[i + 1].views]

\* ViewsSpike deciding on the growth rate alone
ViewsSpike_GrowthOnly(latest, previous, thresholds) ==
    LET viewsGrowth == calculateGrowthRate(previous.views, latest.views)
    IN  IF Exceeds(viewsGrowth, thresholds.viewsSpike.high)
        THEN <<Flag("VIEWS_SPIKE", "HIGH", 90)>>
        ELSE IF Exceeds(viewsGrowth, thresholds.viewsSpike.medium)
             THEN <<Flag("VIEWS_SPIKE", "MEDIUM", 70)>>
             ELSE <<>>

\* rule 1
ViewsSpike(latest, previous, thresholds) ==
    LET viewsGrowth == calculateGrowthRate(previous.views, latest.views)
        viewsDelta == latest.views - previous.views
    IN  IF /\ Exceeds(viewsGrowth, thresholds.viewsSpike.high)
           /\ viewsDelta > thresholds.minViews * 2
        THEN <<Flag("VIEWS_SPIKE", "HIGH", 90)>>
        ELSE IF /\ Exceeds(viewsGrowth, thresholds.viewsSpike.medium)
                /\ viewsDelta > thresholds.minViews
             THEN <<Flag("VIEWS_SPIKE", "MEDIUM", 70)>>
             ELSE <<>>

\* rule 2
LikesSpike(latest, previous, thresholds) ==
    LET likesGrowth == calculateGrowthRate(previous.likes, latest.likes)
        likesDelta == latest.likes - previous.likes
    IN  IF Exceeds(likesGrowth, thresholds.likesSpike.high) /\ likesDelta > 100
        THEN <<Flag("LIKES_SPIKE", "HIGH", 85)>>
        ELSE IF /\ Exceeds(likesGrowth, thresholds.likesSpike.medium)
                /\ likesDelta > 50
             THEN <<Flag("LIKES_SPIKE", "MEDIUM", 65)>>
             ELSE <<>>

\* rule 3
CommentsSpike(latest, previous, thresholds) ==
    LET commentsGrowth ==
            calculateGrowthRate(previous.comments, latest.comments)
        commentsDelta == latest.comments - previous.comments
    IN  IF /\ Exceeds(commentsGrowth, thresholds.commentsSpike.high)
           /\ commentsDelta > 50
        THEN <<Flag("COMMENTS_SPIKE", "HIGH", 88)>>
        ELSE <<>>

\* rule 4; the ratio is compared in hundredths
EngagementRatio(latest, thresholds) ==
    LET engagementRatio ==
            IF latest.views > 0
            THEN Quot((latest.likes + latest.comments) * 100, latest.views)
            ELSE Quot(0, 1)
    IN  IF /\ Exceeds(engagementRatio, thresholds.engagementRatio.high)
           /\ latest.views > thresholds.minViews
        THEN <<Flag("ENGAGEMENT_RATIO", "HIGH", 92)>>
        ELSE IF /\ Exceeds(engagementRatio, thresholds.engagementRatio.medium)
                /\ latest.views > thresholds.minViews
             THEN <<Flag("ENGAGEMENT_RATIO", "MEDIUM", 75)>>
             ELSE <<>>

\* detectZeroVariance without the test of the mean: any steady growth counts
detectZeroVariance_AnyMean(history) ==
    IF Len(history) < 6 THEN <<>>
    ELSE
    LET rates == [i \in 1..(Len(history) - 1) |->
                    calculateGrowthRate(history[i + 1].views, history[i].views)]
        isFinite(rate) == rate # Infinity
        finite == SelectSeq(rates, isFinite)
        growthRates == [i \in 1..Len(finite) |->
                            (finite[i].num * 100) \div finite[i].den]
        n == Len(growthRates)
        total == Sum(growthRates)
        squares == Sum([i \in 1..n |-> growthRates[i] * growthRates[i]])
        spread == n * squares - total * total
    IN  IF n < 5 THEN <<>>
        ELSE IF total > 0 /\ spread <= (total * total - 1) \div 100
             THEN <<Flag("ZERO_VARIANCE", "HIGH", 95)>>
             ELSE <<>>

\* growth rates are kept in hundredths of a percent, rounded down; exact on
\* histories whose rates are multiples of 0.01 %
detectZeroVariance(history) ==
    IF Len(history) < 6 THEN <<>>
    ELSE
    LET rates == [i \in 1..(Len(history) - 1) |->
                    calculateGrowthRate(history[i + 1].views, history[i].views)]
        isFinite(rate) == rate # Infinity
        finite == SelectSeq(rates, isFinite)
        growthRates == [i \in 1..Len(finite) |->
                            (finite[i].num * 100) \div finite[i].den]
        n == Len(growthRates)
        total == Sum(growthRates)
        squares == Sum([i \in 1..n |-> growthRates[i] * growthRates[i]])
        \* n^2 * variance
        spread == n * squares - total * total
    IN  IF n < 5 THEN <<>>
        \* cv < 0.1, squared: 100 * variance < mean^2; mean > 20
        ELSE IF /\ total # 0
                /\ spread <= (total * total - 1) \div 100
                /\ total > 2000 * n
             THEN <<Flag("ZERO_VARIANCE", "HIGH", 95)>>
             ELSE <<>>

detectVelocityAnomaly(history) ==
    IF Len(history) < 4 THEN <<>>
    ELSE
    LET velocities == Velocities(history)
        accelerations == [i \in 1..(Len(velocities) - 1) |->
                             velocities[i] - velocities[i + 1]]
        n == Len(accelerations)
        maxAcceleration == Max({Abs(accelerations[i]) : i \in 1..n})
    IN  \* maxAcceleration > avgAcceleration * 5, times n
        IF /\ maxAcceleration * n > Sum(accelerations) * 5
           /\ maxAcceleration > 1000
        THEN <<Flag("VELOCITY_ANOMALY", "HIGH", 85)>>
        ELSE <<>>

detectTimePattern(history) ==
    IF Len(history) < 24 THEN <<>>
    ELSE
    LET velocities == Velocities(history)
        hours == {history[i].hour : i \in 1..Len(velocities)}
        \* velocities[i] for the entries of that hour, 0 for the others
        hourlyGrowth(hour) ==
            Sum([i \in 1..Len(velocities) |->
                    IF history[i].hour = hour THEN velocities[i] ELSE 0])
        maxGrowth == Max({hourlyGrowth(hour) : hour \in hours})
        total == Sum(velocities)
    IN  \* maxGrowth > avgGrowth * 8, times the number of hours
        IF /\ maxGrowth * Cardinality(hours) > total * 8
           /\ maxGrowth > 5000
        THEN <<Flag("TIME_PATTERN", "MEDIUM", 70)>>
        ELSE <<>>

\* likes/views > 0.15 and comments/views > 0.05, times 100 * views
detectRatioAnomaly(latest, platform) ==
    IF latest.views < 100 THEN <<>>
    ELSE IF latest.likes * 100 > 15 * latest.views /\ latest.views > 1000
         THEN <<Flag("RATIO_ANOMALY", "HIGH", 90)>>
         ELSE IF /\ latest.comments * 100 > 5 * latest.views
                 /\ latest.views > 1000
              THEN <<Flag("RATIO_ANOMALY", "MEDIUM", 75)>>
              ELSE <<>>

detectSuddenStop(history) ==
    IF Len(history) < 12 THEN <<>>
    ELSE
    LET recent6 == SubSeq(history, 1, 6)
        previous6 == SubSeq(history, 7, 12)
        \* five times the average growth
        recentGrowth == Sum(Velocities(recent6))
        previousGrowth == Sum(Velocities(previous6))
    IN  \* previousAvgGrowth > 500; recentAvgGrowth < previousAvgGrowth * 0.1
        IF previousGrowth > 500 * 5 /\ recentGrowth * 10 < previousGrowth
        THEN <<Flag("SUDDEN_STOP", "MEDIUM", 70)>>
        ELSE <<>>

EmptyResult ==
    [hasAnomalies |-> FALSE, flags |-> <<>>, confidenceScore |-> Quot(0, 1)]

\* a TypeError out of detectAnomalies
Threw == [threw |-> TRUE]

\* the confidences added up instead of averaged
ConfidenceScore_Sum(flags) ==
    LET total == Sum([i \in 1..Len(flags) |-> flags[i].confidence])
    IN  IF total > 100 THEN Quot(100, 1) ELSE Quot(total, 1)

\* Math.min(100, mean of the flags' confidences), as an exact quotient
ConfidenceScore(flags) ==
    LET total == Sum([i \in 1..Len(flags) |-> flags[i].confidence])
    IN  IF Len(flags) > 0
        THEN IF total > 100 * Len(flags)
             THEN Quot(100, 1) ELSE Quot(total, Len(flags))
        ELSE Quot(0, 1)

\* Flags with the advanced rules run from four entries on
Flags_AdvancedFromFour(history, thresholds, platform) ==
    LET latest == history[1]
        previous == history[2]
    IN  ViewsSpike(latest, previous, thresholds)
            \o LikesSpike(latest, previous, thresholds)
            \o CommentsSpike(latest, previous, thresholds)
            \o EngagementRatio(latest, thresholds)
            \o (IF Len(history) >= 4
                THEN detectZeroVariance(history)
                        \o detectVelocityAnomaly(history)
                        \o detectRatioAnomaly(latest, platform)
                ELSE <<>>)
            \o (IF Len(history) >= 12 THEN detectSuddenStop(history) ELSE <<>>)
            \o (IF Len(history) >= 24 THEN detectTimePattern(history) ELSE <<>>)

\* the flags of the nine rules in emission order, for a history of at
\* least two entries
Flags(history, thresholds, platform) ==
    LET latest == history[1]
        previous == history[2]
    IN  ViewsSpike(latest, previous, thresholds)
            \o LikesSpike(latest, previous, thresholds)
            \o CommentsSpike(latest, previous, thresholds)
            \o EngagementRatio(latest, thresholds)
            \o (IF Len(history) >= 5
                THEN detectZeroVariance(history)
                        \o detectVelocityAnomaly(history)
                        \o detectRatioAnomaly(latest, platform)
                ELSE <<>>)
            \o (IF Len(history) >= 12 THEN detectSuddenStop(history) ELSE <<>>)
            \o (IF Len(history) >= 24 THEN detectTimePattern(history) ELSE <<>>)

Result(flags) ==
    [hasAnomalies |-> Len(flags) > 0, flags |-> flags,
     confidenceScore |-> ConfidenceScore(flags)]

\* detectAnomalies reading the threshold fields ahead of the length gate
detectAnomalies_ThresholdsFirst(history, platform) ==
    LET thresholds == Thresholds(platform)
    IN  IF thresholds = Inherited THEN Threw
        ELSE IF Len(history) < 2 THEN EmptyResult
        ELSE Result(Flags(history, thresholds, platform))

detectAnomalies(history, platform) ==
    LET thresholds == Thresholds(platform)
    IN  IF Len(history) < 2 THEN EmptyResult
        \* thresholds.viewsSpike of an inherited member is undefined
        ELSE IF thresholds = Inherited THEN Threw
        ELSE Result(Flags(history, thresholds, platform))

(***************************************************************************)
(* runBotDetection                                                          *)
(***************************************************************************)
\* the HIGH-only filter
SignificantFlags_HighOnly(flags) ==
    LET high(f) == f.severity = "HIGH" IN SelectSeq(flags, high)

\* result.flags.filter(severity HIGH or MEDIUM)
SignificantFlags(flags) ==
    LET significant(f) == f.severity = "HIGH" \/ f.severity = "MEDIUM"
    IN  SelectSeq(flags, significant)

\* StatsEvents.botDetected(...); evidence holds the flag types, in order
BotDetected(clipId, result) ==
    LET significantFlags == SignificantFlags(result.flags)
    IN  [type |-> "stats.bot_detected", clipId |-> clipId,
         flagType |-> significantFlags[1].type,
         confidence |-> Quot(result.confidenceScore.num,
                             result.confidenceScore.den * 100),
         evidence |-> [i \in 1..Len(significantFlags) |->
                          significantFlags[i].type]]

\* clipData.history || []
HistoryOf(data) ==
    IF data.history = None THEN <<>> ELSE data.history.entries

\* clipData.platform || 'YOUTUBE'
PlatformOfData(data) ==
    IF data.platform = "undefined" THEN "YOUTUBE" ELSE data.platform

IdleBot ==
    [pc |-> "idle", clipId |-> "none", data |-> None, detected |-> None,
     result |-> None, log |-> <<>>, outcome |-> "pending"]

BotInit == bot = IdleBot

\* runBotDetection(clipId) called: the history request goes out
RunBotDetection(clipId) ==
    /\ bot.pc \in {"idle", "done"}
    /\ bot' = [IdleBot EXCEPT !.pc = "fetch", !.clipId = clipId]
    /\ UNCHANGED <<statsVars, rankVars, auxVars>>

\* clip-service answered: detectAnomalies runs; the call goes on to publish,
\* returns the result, or returns the empty result from its catch
HistoryFetched(data) ==
    /\ bot.pc = "fetch"
    /\ LET result == detectAnomalies(HistoryOf(data), PlatformOfData(data))
       IN  bot' =
             IF result = Threw
             THEN [bot EXCEPT !.pc = "done", !.data = data,
                              !.detected = result, !.result = EmptyResult,
                              !.outcome = "returned"]
             ELSE IF /\ result.hasAnomalies
                     /\ Len(SignificantFlags(result.flags)) > 0
                  THEN [bot EXCEPT !.pc = "publish", !.data = data,
                                   !.detected = result]
                  ELSE [bot EXCEPT !.pc = "done", !.data = data,
                                   !.detected = result, !.result = result,
                                   !.outcome = "returned"]
    /\ UNCHANGED <<statsVars, rankVars, auxVars>>

\* the request failed or timed out: the catch returns the empty result
HistoryFetchFails ==
    /\ bot.pc = "fetch"
    /\ bot' = [bot EXCEPT !.pc = "done", !.result = EmptyResult,
                           !.outcome = "returned"]
    /\ UNCHANGED <<statsVars, rankVars, auxVars>>

\* PublishBotDetected without the inner try/catch: a rejected publish
\* leaves through the outer catch
PublishBotDetected_Propagates(ok) ==
    /\ bot.pc = "publish"
    /\ bot' = [bot EXCEPT
                 !.pc = "done", !.outcome = "returned",
                 !.result = IF ok THEN bot.detected ELSE EmptyResult,
                 !.log = Append(bot.log,
                     Effect("publish", ok,
                            BotDetected(bot.clipId, bot.detected)))]
    /\ UNCHANGED <<statsVars, rankVars, auxVars>>

\* publisher.publish(event) resolved (ok) or rejected; either way the call
\* returns what detectAnomalies returned
PublishBotDetected(ok) ==
    /\ bot.pc = "publish"
    /\ bot' = [bot EXCEPT
                 !.pc = "done", !.result = bot.detected,
                 !.outcome = "returned",
                 !.log = Append(bot.log,
                     Effect("publish", ok,
                            BotDetected(bot.clipId, bot.detected)))]
    /\ UNCHANGED <<statsVars, rankVars, auxVars>>

(***************************************************************************)
(* Event consumer: retry wrapper and the clip handlers                      *)
(***************************************************************************)
maxRetries == 3

\* the process the handlers run refreshClipStats in
HandlerProc == "p1"

\* payloads of clip.approved and clip.submitted
ClipPayloads == {[clipId |-> clip.id] : clip \in AllClips}

\* response.data of GET /clips/{clipId}: the clip, the clip without a
\* platformVideoId, or nothing
ClipLookups(clipId) ==
    {clip \in AllClips : clip.id = clipId}
        \cup {[id |-> clipId, platform |-> "TIKTOK", videoId |-> ""]}
        \cup {None}

NoMsg ==
    [type |-> "none", payload |-> None, status |-> "none", pc |-> "idle",
     attempts |-> 0, acks |-> 0, thrown |-> 0,
     invAcks |-> 0, invThrew |-> FALSE, steps |-> <<>>,
     deliveredAt |-> 0, effects |-> <<>>, publishes |-> 0]

\* the message is not being worked on
Settled(m) == m.status \in {"none", "acked", "dead"}

\* first statement of the handler registered for the routing key
HandlerEntry(type) ==
    CASE type = "clip.approved" -> "lookup"
      [] type = "clip.submitted" -> "ack"
      [] OTHER -> "sync"

\* what the event library does with a message whose handler threw: another
\* attempt until maxRetries attempts are used up, then the dead-letter queue
RetryOrDeadLetter(attempts) ==
    IF attempts < maxRetries THEN "queued" ELSE "dead"

\* the handler threw out of the retry wrapper
HandlerThrew(m) ==
    [m EXCEPT !.pc = "idle", !.thrown = m.thrown + 1, !.invThrew = TRUE,
              !.steps = Append(m.steps, "throw"),
              !.status = RetryOrDeadLetter(m.attempts)]

\* the broker hands a message of the queue to the consumer
Consume(type, payload) ==
    /\ Settled(msg)
    /\ msg' = [NoMsg EXCEPT !.type = type, !.payload = payload,
                            !.status = "queued"]
    /\ UNCHANGED <<statsVars, rankVars, bot, campaignCache, now, sysVars>>

\* an attempt starts: the handler is entered
Deliver ==
    /\ msg.status = "queued"
    /\ msg' = [msg EXCEPT !.status = "handling", !.attempts = msg.attempts + 1,
                          !.pc = HandlerEntry(msg.type),
                          !.invAcks = 0, !.invThrew = FALSE, !.steps = <<>>,
                          !.deliveredAt = now, !.effects = <<>>]
    /\ UNCHANGED <<statsVars, rankVars, bot, campaignCache, now, sysVars>>

\* clip.approved: clipClient.get answered; with a platformVideoId the handler
\* calls refreshClipStats(clipId, clip.platform, clip.platformVideoId).
\* clipClient is never null: config.clipServiceUrl always holds a URL.
ClipLookupReturns(clip) ==
    /\ msg.status = "handling" /\ msg.pc = "lookup"
    /\ clip \in ClipLookups(msg.payload.clipId)
    /\ IF clip # None /\ clip.videoId # ""
       THEN /\ Free(HandlerProc)
            /\ proc' = [proc EXCEPT ![HandlerProc] =
                          EnterRefresh([IdleProc EXCEPT !.op = "refresh"],
                                       [id |-> msg.payload.clipId,
                                        platform |-> clip.platform,
                                        videoId |-> clip.videoId])]
            /\ msg' = [msg EXCEPT !.pc = "refresh",
                                  !.steps = Append(@, "lookup with video")]
       ELSE /\ msg' = [msg EXCEPT !.pc = "ack",
                                  !.steps = Append(@, "lookup without video")]
            /\ UNCHANGED proc
    /\ UNCHANGED <<cache, rankVars, bot, campaignCache, now, sysVars>>

\* clip.approved: clipClient.get failed; the catch logs and rethrows
ClipLookupFails ==
    /\ msg.status = "handling" /\ msg.pc = "lookup"
    /\ msg' = HandlerThrew([msg EXCEPT !.steps = Append(@, "lookup failed")])
    /\ UNCHANGED <<statsVars, rankVars, bot, campaignCache, now, sysVars>>

\* the publisher.publish calls of the refreshClipStats call that just ended
PublishCalls ==
    Cardinality({j \in 1..Len(proc[HandlerProc].log) :
                    proc[HandlerProc].log[j].call = "publish"})

\* HandlerAfterRefresh with the catch swallowing the error
HandlerAfterRefresh_Swallows ==
    /\ msg.status = "handling" /\ msg.pc = "refresh"
    /\ proc[HandlerProc].pc = "done"
    /\ msg' = [msg EXCEPT !.pc = "ack",
                 !.publishes = @ + PublishCalls,
                 !.steps = Append(@, IF proc[HandlerProc].outcome = "ok"
                                     THEN "refresh" ELSE "refresh failed")]
    /\ UNCHANGED <<statsVars, rankVars, bot, campaignCache, now, sysVars>>

\* clip.approved: refreshClipStats returned, or threw and the catch rethrows;
\* publishes counts the publish calls of all attempts
HandlerAfterRefresh ==
    /\ msg.status = "handling" /\ msg.pc = "refresh"
    /\ proc[HandlerProc].pc = "done"
    /\ msg' = IF proc[HandlerProc].outcome = "ok"
              THEN [msg EXCEPT !.pc = "ack", !.steps = Append(@, "refresh"),
                               !.publishes = @ + PublishCalls]
              ELSE HandlerThrew([msg EXCEPT
                                   !.steps = Append(@, "refresh failed"),
                                   !.publishes = @ + PublishCalls])
    /\ UNCHANGED <<statsVars, rankVars, bot, campaignCache, now, sysVars>>

\* Ack with a statement after it that throws
Ack_ThenThrows ==
    /\ msg.status = "handling" /\ msg.pc = "ack"
    /\ msg' = HandlerThrew([msg EXCEPT !.acks = msg.acks + 1,
                                       !.invAcks = msg.invAcks + 1,
                                       !.steps = Append(@, "ack")])
    /\ UNCHANGED <<statsVars, rankVars, bot, campaignCache, now, sysVars>>

\* context.ack(), the last statement of every handler
Ack ==
    /\ msg.status = "handling" /\ msg.pc = "ack"
    /\ msg' = [msg EXCEPT !.pc = "idle", !.status = "acked",
                          !.acks = msg.acks + 1, !.invAcks = msg.invAcks + 1,
                          !.steps = Append(@, "ack")]
    /\ UNCHANGED <<statsVars, rankVars, bot, campaignCache, now, sysVars>>

(***************************************************************************)
(* Campaign handlers and syncCampaignCache                                  *)
(***************************************************************************)
MaxTime == 3

CampaignIds == {"k1", "k2"}

\* titles of campaign.created payloads; "" is the empty title
Titles == {"", "T1", "T2"}

NewStatuses == {"PAUSED", "COMPLETED"}

CreatedPayloads ==
    {[campaignId |-> id, title |-> t] : id \in CampaignIds, t \in Titles}

StatusChangedPayloads ==
    {[campaignId |-> id, newStatus |-> st] : id \in CampaignIds,
                                             st \in NewStatuses}

\* campaignClient: null, the configuration has no campaignServiceUrl
campaignClient == None

\* what GET /campaigns/{id} of campaign-service can answer
CampaignResponses ==
    {[title |-> t, status |-> st] : t \in {"T1"}, st \in {"ACTIVE", "PAUSED"}}

\* the `data` argument the handler passes to syncCampaignCache; a field the
\* object literal does not have is "undefined"
SyncData(m) ==
    IF m.type = "campaign.created"
    THEN [title |-> m.payload.title, status |-> "ACTIVE"]
    ELSE [title |-> "undefined", status |-> m.payload.newStatus]

\* JavaScript truthiness of an optional string
Truthy(str) == str \notin {"", "undefined"}

\* prisma.campaignCache.upsert of lines 20-29 on the row `old` (None: no row)
UpsertRow(old, data, at) ==
    IF old = None
    THEN [title |-> data.title,
          status |-> IF Truthy(data.status) THEN data.status ELSE "UNKNOWN",
          syncedAt |-> at]
    ELSE [title |-> IF data.title = "undefined" THEN old.title ELSE data.title,
          status |-> IF data.status = "undefined" THEN old.status
                     ELSE data.status,
          syncedAt |-> at]

\* UpsertFromPayload whose update branch leaves syncedAt alone
UpsertFromPayload_KeepsSyncedAt ==
    /\ msg.status = "handling" /\ msg.pc = "sync"
    /\ Truthy(SyncData(msg).title)
    /\ LET id == msg.payload.campaignId
           old == campaignCache[id]
           row == UpsertRow(old, SyncData(msg), now)
       IN  campaignCache' = [campaignCache EXCEPT ![id] =
                               IF old = None THEN row
                               ELSE [row EXCEPT !.syncedAt = old.syncedAt]]
    /\ msg' = [msg EXCEPT !.pc = "ack",
                          !.effects = Append(@, [call |-> "upsert", ok |-> TRUE,
                                 existed |-> campaignCache[msg.payload.campaignId] # None,
                                 at |-> now])]
    /\ UNCHANGED <<statsVars, rankVars, bot, now, sysVars>>

\* syncCampaignCache with a title in `data`: the row is written from the
\* payload and the function returns
UpsertFromPayload ==
    /\ msg.status = "handling" /\ msg.pc = "sync"
    /\ Truthy(SyncData(msg).title)
    /\ LET id == msg.payload.campaignId
       IN  campaignCache' = [campaignCache EXCEPT ![id] =
                               UpsertRow(campaignCache[id], SyncData(msg), now)]
    /\ msg' = [msg EXCEPT !.pc = "ack",
                          !.effects = Append(@, [call |-> "upsert", ok |-> TRUE,
                                 existed |-> campaignCache[msg.payload.campaignId] # None,
                                 at |-> now])]
    /\ UNCHANGED <<statsVars, rankVars, bot, now, sysVars>>

\* UpsertFromPayloadFails without the try/catch: the error leaves
\* syncCampaignCache and the handler
UpsertFromPayloadFails_Throws ==
    /\ msg.status = "handling" /\ msg.pc = "sync"
    /\ Truthy(SyncData(msg).title)
    /\ msg' = HandlerThrew([msg EXCEPT
                   !.effects = Append(@, [call |-> "upsert", ok |-> FALSE,
                                          at |-> now])])
    /\ UNCHANGED <<statsVars, rankVars, bot, campaignCache, now, sysVars>>

\* the upsert threw: the catch of syncCampaignCache logs and swallows
UpsertFromPayloadFails ==
    /\ msg.status = "handling" /\ msg.pc = "sync"
    /\ Truthy(SyncData(msg).title)
    /\ msg' = [msg EXCEPT !.pc = "ack",
                          !.effects = Append(@, [call |-> "upsert", ok |-> FALSE,
                                                 at |-> now])]
    /\ UNCHANGED <<statsVars, rankVars, bot, campaignCache, now, sysVars>>

\* syncCampaignCache without a title in `data`: nothing is written when
\* campaignClient is null; otherwise the row is written from the answer of
\* campaign-service, and a failure of the request is swallowed
SyncWithoutTitle ==
    /\ msg.status = "handling" /\ msg.pc = "sync"
    /\ ~Truthy(SyncData(msg).title)
    /\ IF campaignClient = None
       THEN /\ msg' = [msg EXCEPT !.pc = "ack"]
            /\ UNCHANGED campaignCache
       ELSE \/ \E campaign \in CampaignResponses :
                 /\ campaignCache' =
                       [campaignCache EXCEPT ![msg.payload.campaignId] =
                          [title |-> campaign.title, status |-> campaign.status,
                           syncedAt |-> now]]
                 /\ msg' = [msg EXCEPT !.pc = "ack",
                              !.effects = @ \o <<[call |-> "get", ok |-> TRUE,
                                                  at |-> now],
                                                 [call |-> "upsert", ok |-> TRUE,
                                                  at |-> now]>>]
            \/ /\ msg' = [msg EXCEPT !.pc = "ack",
                            !.effects = Append(@, [call |-> "get", ok |-> FALSE,
                                                   at |-> now])]
               /\ UNCHANGED campaignCache
    /\ UNCHANGED <<statsVars, rankVars, bot, now, sysVars>>

\* syncCampaignCache without a title in `data`, campaignClient being a
\* client: campaign-service answered and the row was upserted from the answer
SyncPullReturns(campaign) ==
    /\ msg.status = "handling" /\ msg.pc = "sync"
    /\ ~Truthy(SyncData(msg).title)
    /\ campaignCache' = [campaignCache EXCEPT ![msg.payload.campaignId] =
                            [title |-> campaign.title,
                             status |-> campaign.status, syncedAt |-> now]]
    /\ msg' = [msg EXCEPT !.pc = "ack",
                 !.effects = @ \o <<[call |-> "get", ok |-> TRUE, at |-> now],
                                    [call |-> "upsert", ok |-> TRUE,
                                     at |-> now]>>]
    /\ UNCHANGED <<statsVars, rankVars, bot, now, sysVars>>

\* the same call, the request or the upsert after it having thrown: the
\* catch of syncCampaignCache logs and swallows
SyncPullFails(gotAnswer) ==
    /\ msg.status = "handling" /\ msg.pc = "sync"
    /\ ~Truthy(SyncData(msg).title)
    /\ msg' = [msg EXCEPT !.pc = "ack",
                 !.effects = IF gotAnswer
                     THEN @ \o <<[call |-> "get", ok |-> TRUE, at |-> now],
                                 [call |-> "upsert", ok |-> FALSE, at |-> now]>>
                     ELSE Append(@, [call |-> "get", ok |-> FALSE,
                                     at |-> now])]
    /\ UNCHANGED <<statsVars, rankVars, bot, campaignCache, now, sysVars>>

\* 5 * 60 * 1000: 5 minutes, in ms
CACHE_TTL_MS == 300000

\* what one step of the clock stands for, in ms: two steps reach the TTL
ClockStepMs == 150000

\* isRecent that finds every row fresh
isRecent_Always(date, at) == TRUE

\* Date.now() - date.getTime() < CACHE_TTL_MS, Date.now() being `at`
isRecent(date, at) == (at - date) * ClockStepMs < CACHE_TTL_MS

\* campaignClient as getCampaignFromCache finds it: null, or a client
ClientConfigs == {None, [baseURL |-> "campaign-service"]}

\* getCampaignFromCache up to the return of the fresh row, or to the call of
\* syncCampaignCache(campaignId), which without data goes for the pull when
\* there is a client and returns at once when there is none
GetCampaignFromCache(c, campaignId, client) ==
    /\ Free(c)
    /\ LET cached == campaignCache[campaignId]
           read == [IdleProc EXCEPT
                       !.op = "getCampaign", !.clip = [id |-> campaignId],
                       !.seen = cached,
                       !.log = <<Effect("findUnique", TRUE,
                                        [row |-> cached, at |-> now])>>]
       IN  proc' = [proc EXCEPT ![c] =
              IF cached # None /\ isRecent(cached.syncedAt, now)
              THEN [read EXCEPT !.pc = "done", !.outcome = "ok",
                                !.result = cached]
              ELSE IF client = None
                   THEN [read EXCEPT !.pc = "reread"]
                   ELSE [read EXCEPT !.pc = "pull"]]
    /\ UNCHANGED <<cache, rankVars, bot, consumerVars, sysVars>>

\* campaign-service answered and the row was upserted from the answer
CampaignPullReturns(c, campaign) ==
    /\ proc[c].op = "getCampaign" /\ proc[c].pc = "pull"
    /\ campaignCache' = [campaignCache EXCEPT ![proc[c].clip.id] =
                            [title |-> campaign.title,
                             status |-> campaign.status, syncedAt |-> now]]
    /\ proc' = [proc EXCEPT ![c] =
          [@ EXCEPT !.pc = "reread",
                    !.log = @ \o <<Effect("get", TRUE, campaign),
                                   Effect("upsert", TRUE, now)>>]]
    /\ UNCHANGED <<cache, rankVars, bot, msg, now, sysVars>>

\* the request, or the upsert after it, threw: the catch of
\* syncCampaignCache logs and swallows
CampaignPullFails(c, gotAnswer) ==
    /\ proc[c].op = "getCampaign" /\ proc[c].pc = "pull"
    /\ proc' = [proc EXCEPT ![c] =
          [@ EXCEPT !.pc = "reread",
                    !.log = IF gotAnswer
                            THEN @ \o <<Effect("get", TRUE, None),
                                        Effect("upsert", FALSE, now)>>
                            ELSE Append(@, Effect("get", FALSE, None))]]
    /\ UNCHANGED <<cache, rankVars, bot, consumerVars, sysVars>>

\* the second findUnique: its row, or null, is what the function returns
CampaignReread(c) ==
    /\ proc[c].op = "getCampaign" /\ proc[c].pc = "reread"
    /\ proc' = [proc EXCEPT ![c] =
          [@ EXCEPT !.pc = "done", !.outcome = "ok",
                    !.result = campaignCache[proc[c].clip.id],
                    !.log = Append(@, Effect("findUnique", TRUE,
                                [row |-> campaignCache[proc[c].clip.id],
                                 at |-> now]))]]
    /\ UNCHANGED <<cache, rankVars, bot, consumerVars, sysVars>>

\* a findUnique rejected: nothing catches it in getCampaignFromCache
CampaignReadFails(c, campaignId) ==
    /\ \/ Free(c)
       \/ proc[c].op = "getCampaign" /\ proc[c].pc = "reread"
    /\ proc' = [proc EXCEPT ![c] =
          IF Free(c)
          THEN [IdleProc EXCEPT
                   !.op = "getCampaign", !.clip = [id |-> campaignId],
                   !.pc = "done", !.outcome = "threw",
                   !.log = <<Effect("findUnique", FALSE,
                                    [row |-> None, at |-> now])>>]
          ELSE [@ EXCEPT !.pc = "done", !.outcome = "threw",
                         !.log = Append(@, Effect("findUnique", FALSE,
                                            [row |-> None, at |-> now]))]]
    /\ UNCHANGED <<cache, rankVars, bot, consumerVars, sysVars>>

\* time passes
ClockTick ==
    /\ now < MaxTime
    /\ now' = now + 1
    /\ UNCHANGED <<statsVars, rankVars, bot, msg, campaignCache, sysVars>>

ConsumerInit ==
    /\ msg = NoMsg
    /\ campaignCache = [id \in CampaignIds |-> None]
    /\ now = 0

(***************************************************************************)
(* Scheduler                                                                *)
(***************************************************************************)
\* cron firings in one run, of both jobs together
MaxTicks == 3

Ticks == sched.hourly.ticks + sched.daily.ticks

\* the process the hourly job runs batchRefreshStats in
SchedProc == "p2"

\* response.data.clips of GET /clips/needs-refresh
NeedsRefreshLists ==
    {<<>>} \cup {<<clip>> : clip \in {q \in Clips : q.platform = "TIKTOK"}}

\* what clip-service and campaign-service answer to the daily calculations
DailyClipLists ==
    {<<>>} \cup {<<x>> : x \in {q \in SeqClipData : q.id = "a"}}

DailyCampaignLists ==
    {<<>>} \cup {<<x>> : x \in {q \in CampaignData :
                                   q.id = "b" /\ q.avgEngagement = 1}}

\* startOfWeek(new Date(), { weekStartsOn: 1 }), the default of both
\* calculations
CurrentWeek == "w1"

IdleJob ==
    [pc |-> "idle", ticks |-> 0, failed |-> 0, logged |-> <<>>, escaped |-> 0,
     base |-> [r \in RunIds |-> 0]]

SchedInit ==
    sched = [hourly |-> IdleJob, daily |-> IdleJob]

\* Caught without the try/catch: the rejection leaves the callback
Caught_Escapes(job) ==
    [job EXCEPT !.pc = "idle", !.failed = @ + 1, !.escaped = @ + 1]

\* the catch block of a tick callback: the error of this tick is logged and
\* the callback ends
Caught(job) ==
    [job EXCEPT !.pc = "idle", !.failed = @ + 1,
                !.logged = Append(@, job.ticks)]

\* cron fires the hourly callback
HourlyTick ==
    /\ sched.hourly.pc = "idle" /\ Ticks < MaxTicks
    /\ sched' = [sched EXCEPT !.hourly.pc = "fetch", !.hourly.ticks = @ + 1]
    /\ UNCHANGED <<statsVars, rankVars, bot, consumerVars, life>>

\* GET /clips/needs-refresh answered: a non-empty list goes to
\* batchRefreshStats, an empty one ends the tick
NeedsRefreshReturns(clips) ==
    /\ sched.hourly.pc = "fetch"
    /\ IF Len(clips) > 0
       THEN /\ Free(SchedProc)
            /\ proc' = [proc EXCEPT ![SchedProc] =
                          EnterRefresh([IdleProc EXCEPT !.op = "batch",
                                           !.clips = clips, !.i = 1], clips[1])]
            /\ sched' = [sched EXCEPT !.hourly.pc = "batch"]
       ELSE /\ sched' = [sched EXCEPT !.hourly.pc = "idle"]
            /\ UNCHANGED proc
    /\ UNCHANGED <<cache, rankVars, bot, consumerVars, life>>

\* the request failed, timed out, or answered without a body: caught
NeedsRefreshFails ==
    /\ sched.hourly.pc = "fetch"
    /\ sched' = [sched EXCEPT !.hourly = Caught(@)]
    /\ UNCHANGED <<statsVars, rankVars, bot, consumerVars, life>>

\* batchRefreshStats returned its counters (an exception would be caught)
HourlyBatchDone ==
    /\ sched.hourly.pc = "batch"
    /\ proc[SchedProc].pc = "done"
    /\ sched' = [sched EXCEPT !.hourly =
                    IF proc[SchedProc].outcome = "threw" THEN Caught(@)
                    ELSE [@ EXCEPT !.pc = "idle"]]
    /\ UNCHANGED <<statsVars, rankVars, bot, consumerVars, life>>

\* cron fires the daily callback: both calculations are called
DailyTick ==
    /\ sched.daily.pc = "idle" /\ Ticks < MaxTicks
    /\ \A r \in RunIds : RunFree(r)
    /\ sched' = [sched EXCEPT !.daily.pc = "await", !.daily.ticks = @ + 1,
                              !.daily.base = [r \in RunIds |-> rankRun[r].runs]]
    /\ UNCHANGED <<statsVars, rankVars, bot, consumerVars, life>>

\* the calculation in run r, called by this tick, has not got its answer yet
Pending(r) == rankRun[r].runs = sched.daily.base[r]

\* the calculation in run r, called by this tick, has settled
Settles(r, outcome) ==
    /\ ~Pending(r)
    /\ rankRun[r].pc = "done" /\ rankRun[r].outcome = outcome

\* Promise.all settled: it rejects with the first rejection, which the catch
\* logs, and fulfils when both calculations did
DailySettles ==
    /\ sched.daily.pc = "await"
    /\ \/ /\ \E r \in RunIds : Settles(r, "threw")
          /\ sched' = [sched EXCEPT !.daily = Caught(@)]
       \/ /\ \A r \in RunIds : Settles(r, "ok")
          /\ sched' = [sched EXCEPT !.daily.pc = "idle"]
    /\ UNCHANGED <<statsVars, rankVars, bot, consumerVars, life>>

(***************************************************************************)
(* Callers of batchRefreshStats: the route, the hourly tick, the job        *)
(***************************************************************************)
\* the largest clips array POST /stats/batch-refresh accepts
MaxBatchClips == 500

\* a list of n clips
ListOf(clip, n) == [j \in 1..n |-> clip]

\* clip lists at and around the limit
CallerLists ==
    {ListOf(clip, n) : clip \in {q \in Clips : q.platform = "TIKTOK"},
                       n \in {0, 1, MaxBatchClips, MaxBatchClips + 1}}

\* request bodies: without a clips array, or with one
Bodies ==
    {[hasClips |-> FALSE, clips |-> <<>>]}
    \cup {[hasClips |-> TRUE, clips |-> l] : l \in CallerLists}

\* a request answered by sendError
Rejected(error) ==
    [IdleProc EXCEPT !.op = "route", !.pc = "done", !.outcome = error]

\* batchRefreshStats entered with a non-empty list
EnterBatch(clips) ==
    EnterRefresh([IdleProc EXCEPT !.op = "batch", !.clips = clips, !.i = 1],
                 clips[1])

\* POST /stats/batch-refresh up to its call of batchRefreshStats
PostBatchRefresh(c, staff, body) ==
    /\ Free(c)
    /\ proc' = [proc EXCEPT ![c] =
                  IF ~staff THEN Rejected("forbidden")
                  ELSE IF ~body.hasClips \/ Len(body.clips) = 0
                       THEN Rejected("badRequest")
                  ELSE IF Len(body.clips) > MaxBatchClips
                       THEN Rejected("badRequest")
                  ELSE EnterBatch(body.clips)]
    /\ UNCHANGED <<cache, rankVars, bot, auxVars>>

\* the standalone stats-update job up to its call of batchRefreshStats: an
\* empty list ends the job, any other list is passed on as it came
StatsUpdateJob(c, clips) ==
    /\ Free(c)
    /\ proc' = [proc EXCEPT ![c] =
                  IF Len(clips) = 0
                  THEN [IdleProc EXCEPT !.op = "job", !.pc = "done",
                                        !.outcome = "exit0"]
                  ELSE EnterBatch(clips)]
    /\ UNCHANGED <<cache, rankVars, bot, auxVars>>

\* the job's request to clip-service failed: logged, exit code 1
StatsUpdateJobFails(c) ==
    /\ Free(c)
    /\ proc' = [proc EXCEPT ![c] =
                  [IdleProc EXCEPT !.op = "job", !.pc = "done",
                                   !.outcome = "exit1"]]
    /\ UNCHANGED <<cache, rankVars, bot, auxVars>>

(***************************************************************************)
(* Process lifecycle: main and its shutdown handler                         *)
(***************************************************************************)
Signals == {"SIGTERM", "SIGINT"}

\* state after main ran to app.listen
LifeInit ==
    life = [consumer |-> "started", publisher |-> "connected",
            redis |-> "open", app |-> "listening", exited |-> FALSE,
            shut |-> [s \in Signals |-> "idle"], log |-> <<>>]

\* process.on(signal, shutdown): the handler is entered
Signal(s) ==
    /\ ~life.exited
    /\ life.shut[s] = "idle"
    /\ life' = [life EXCEPT !.shut[s] = "stop"]
    /\ UNCHANGED <<statsVars, rankVars, bot, consumerVars, sched>>

\* stopEventHandlers: consumer.stop() and consumer = null, when there is one
StopEventHandlers(s) ==
    /\ ~life.exited
    /\ life.shut[s] = "stop"
    /\ life' = IF life.consumer # "null"
               THEN [life EXCEPT !.shut[s] = "disconnect",
                                 !.consumer = "null",
                                 !.log = Append(@, "consumer.stop")]
               ELSE [life EXCEPT !.shut[s] = "disconnect"]
    /\ UNCHANGED <<statsVars, rankVars, bot, consumerVars, sched>>

PublisherDisconnect(s) ==
    /\ ~life.exited
    /\ life.shut[s] = "disconnect"
    /\ life' = [life EXCEPT !.shut[s] = "quit",
                            !.publisher = "disconnected",
                            !.log = Append(@, "publisher.disconnect")]
    /\ UNCHANGED <<statsVars, rankVars, bot, consumerVars, sched>>

RedisQuit(s) ==
    /\ ~life.exited
    /\ life.shut[s] = "quit"
    /\ life' = [life EXCEPT !.shut[s] = "close", !.redis = "closed",
                            !.log = Append(@, "redis.quit")]
    /\ UNCHANGED <<statsVars, rankVars, bot, consumerVars, sched>>

\* app.close(): the HTTP server stops listening
AppClose(s) ==
    /\ ~life.exited
    /\ life.shut[s] = "close"
    /\ life' = [life EXCEPT !.shut[s] = "exit", !.app = "closed",
                            !.log = Append(@, "app.close")]
    /\ UNCHANGED <<statsVars, rankVars, bot, consumerVars, sched>>

\* one of the awaited calls rejected: the rest of shutdown is not run
ShutdownStepFails(s) ==
    /\ ~life.exited
    /\ life.shut[s] \in {"stop", "disconnect", "quit", "close"}
    /\ life' = [life EXCEPT !.shut[s] = "rejected"]
    /\ UNCHANGED <<statsVars, rankVars, bot, consumerVars, sched>>

\* process.exit(0)
ProcessExit(s) ==
    /\ ~life.exited
    /\ life.shut[s] = "exit"
    /\ life' = [life EXCEPT !.shut[s] = "done", !.exited = TRUE,
                            !.log = Append(@, "process.exit")]
    /\ UNCHANGED <<statsVars, rankVars, bot, consumerVars, sched>>

Init ==
    /\ StatsInit /\ RankInit /\ BotInit /\ ConsumerInit
    /\ SchedInit /\ LifeInit

RefreshSteps(c) ==
    \/ \E stats \in UNION {AdapterResults(pf) : pf \in KnownPlatforms} :
          FetchReturns(c, stats)
    \/ FetchAdapterThrows(c)
    \/ FetchFallsBack(c)
    \/ FetchUnsupported(c)
    \/ RedisSetex(c)
    \/ RedisSetexFails(c)
    \/ \E ok \in BOOLEAN : PublishUpdated(c, ok)

Next ==
    \/ \E c \in Procs, clip \in Clips : RefreshClipStats(c, clip)
    \/ \E c \in Procs, clip \in Clips, readOk \in BOOLEAN :
          GetOrFetchStats(c, clip, readOk)
    \/ \E c \in Procs : RefreshSteps(c)
    \/ Tick

Spec == Init /\ [][Next]_vars

NextBatch ==
    \/ \E clips \in SeqsUpTo(Clips, MaxClips) : BatchRefreshStats("p1", clips)
    \/ RefreshSteps("p1")
    \/ Pause("p1")

SpecBatch == Init /\ [][NextBatch]_vars

\* refreshClipStats and batchRefreshStats on clips of any platform string
MaxOddBatch == 2

NextPlatforms ==
    \/ \E clip \in AllClips \cup UnsupportedClips : RefreshClipStats("p1", clip)
    \/ \E clips \in SeqsUpTo({q \in Clips : q.platform = "TIKTOK"}
                                \cup UnsupportedClips, MaxOddBatch) :
          BatchRefreshStats("p1", clips)
    \/ RefreshSteps("p1")
    \/ Pause("p1")

SpecPlatforms == Init /\ [][NextPlatforms]_vars

\* the three callers of batchRefreshStats up to the call, on lists at and
\* around the limit of the route
NextCallers ==
    \/ \E staff \in BOOLEAN, body \in Bodies :
          PostBatchRefresh(HandlerProc, staff, body)
    \/ \E clips \in CallerLists : StatsUpdateJob(HandlerProc, clips)
    \/ StatsUpdateJobFails(HandlerProc)
    \/ HourlyTick
    \/ \E clips \in CallerLists : NeedsRefreshReturns(clips)
    \/ NeedsRefreshFails

SpecCallers == Init /\ [][NextCallers]_vars

\* getInstagramStats calls, one after the other, on any responses
NextInstagram ==
    \/ \E mediaId \in MediaIds : InstagramFirstPost("p1", mediaId)
    \/ \E data \in InstagramResponses : InstagramFirstResponse("p1", data)
    \/ \E data \in InstagramResponses : InstagramSecondResponse("p1", data)
    \/ InstagramPostFails("p1")

SpecInstagram == Init /\ [][NextInstagram]_vars

\* one ranking calculation, of either kind, on any list up to MaxItems
NextRank ==
    \/ /\ rankRun["r1"].pc = "idle"
       /\ \E start \in Weeks, clips \in SeqsUpTo(ClipData, MaxItems) :
             calculateWeeklyClipRankings("r1", start, clips)
    \/ /\ rankRun["r1"].pc = "idle"
       /\ \E start \in Weeks, campaigns \in SeqsUpTo(CampaignData, MaxItems) :
             calculateWeeklyCampaignRankings("r1", start, campaigns)
    \/ /\ rankRun["r1"].pc = "idle"
       /\ \E kind \in {"clip", "campaign"}, start \in Weeks :
             RankingFetchFails("r1", kind, start)
    \/ UpsertClipRanking("r1")
    \/ UpsertCampaignRanking("r1")
    \/ UpsertFails("r1")

SpecRank == Init /\ [][NextRank]_vars

\* up to MaxRuns clip ranking calculations one after the other, none failing
NextRankSeq ==
    \/ /\ rankRun["r1"].runs < MaxRuns
       /\ \E start \in Weeks :
             \E clips \in {q \in SeqsUpTo(SeqClipData, MaxItems) : DistinctIds(q)} :
                calculateWeeklyClipRankings("r1", start, clips)
    \/ UpsertClipRanking("r1")

SpecRankSeq == Init /\ [][NextRankSeq]_vars

\* two clip ranking calculations for the same week, each on its own answer
\* of clip-service, their upserts interleaved
NextRankRace ==
    \/ \E r \in RunIds :
          /\ rankRun[r].runs = 0
          /\ \E clips \in {q \in SeqsUpTo(SeqClipData, MaxItems) : DistinctIds(q)} :
                calculateWeeklyClipRankings(r, "w1", clips)
    \/ \E r \in RunIds : UpsertClipRanking(r)

SpecRankRace == Init /\ [][NextRankRace]_vars

\* runBotDetection calls one after the other, on any response
NextBot ==
    \/ \E clipId \in BotClipIds : RunBotDetection(clipId)
    \/ \E data \in Responses : HistoryFetched(data)
    \/ HistoryFetchFails
    \/ \E ok \in BOOLEAN : PublishBotDetected(ok)

SpecBot == Init /\ [][NextBot]_vars

\* the consumer working through clip messages, one at a time
NextConsumer ==
    \/ \E type \in {"clip.approved", "clip.submitted"},
          payload \in ClipPayloads : Consume(type, payload)
    \/ Deliver
    \/ \E clip \in AllClips \cup {None} \cup
                   {[id |-> c.id, platform |-> "TIKTOK", videoId |-> ""] :
                       c \in AllClips} : ClipLookupReturns(clip)
    \/ ClipLookupFails
    \/ /\ msg.pc = "refresh"
       /\ RefreshSteps(HandlerProc)
    \/ HandlerAfterRefresh
    \/ Ack

SpecConsumer == Init /\ [][NextConsumer]_vars

\* an attempt that started runs to its end and a queued message is delivered
SpecConsumerFair == SpecConsumer /\ WF_vars(NextConsumer)

\* the consumer working through campaign messages, one at a time
NextCampaign ==
    \/ \E payload \in CreatedPayloads : Consume("campaign.created", payload)
    \/ \E payload \in StatusChangedPayloads :
          Consume("campaign.status_changed", payload)
    \/ Deliver
    \/ UpsertFromPayload
    \/ UpsertFromPayloadFails
    \/ SyncWithoutTitle
    \/ Ack
    \/ ClockTick

SpecCampaign == Init /\ [][NextCampaign]_vars

\* the campaign handlers of a service whose campaignClient is a client
NextCampaignPull ==
    \/ \E payload \in CreatedPayloads : Consume("campaign.created", payload)
    \/ \E payload \in StatusChangedPayloads :
          Consume("campaign.status_changed", payload)
    \/ Deliver
    \/ UpsertFromPayload
    \/ UpsertFromPayloadFails
    \/ \E campaign \in CampaignResponses : SyncPullReturns(campaign)
    \/ \E gotAnswer \in BOOLEAN : SyncPullFails(gotAnswer)
    \/ Ack
    \/ ClockTick

SpecCampaignPull == Init /\ [][NextCampaignPull]_vars

\* getCampaignFromCache calls for one campaign while campaign.created events
\* for it fill the table and time passes
NextCampaignRead ==
    \/ \E payload \in {q \in CreatedPayloads :
                            q.title = "T1" /\ q.campaignId = "k1"} :
          Consume("campaign.created", payload)
    \/ Deliver
    \/ UpsertFromPayload
    \/ Ack
    \/ ClockTick
    \/ \E client \in ClientConfigs : GetCampaignFromCache("p1", "k1", client)
    \/ \E campaign \in CampaignResponses : CampaignPullReturns("p1", campaign)
    \/ \E gotAnswer \in BOOLEAN : CampaignPullFails("p1", gotAnswer)
    \/ CampaignReread("p1")
    \/ CampaignReadFails("p1", "k1")

SpecCampaignRead == Init /\ [][NextCampaignRead]_vars

\* two callers of refreshClipStats, on the same clip or not, while time
\* passes
NextRace ==
    \/ \E c \in Procs, clip \in Clips : RefreshClipStats(c, clip)
    \/ \E c \in Procs : RefreshSteps(c)
    \/ ClockTick

SpecRace == Init /\ [][NextRace]_vars

\* the two cron jobs over MaxTicks ticks each, with the work they start
NextScheduler ==
    \/ HourlyTick
    \/ \E clips \in NeedsRefreshLists : NeedsRefreshReturns(clips)
    \/ NeedsRefreshFails
    \/ /\ sched.hourly.pc = "batch"
       /\ \/ RefreshSteps(SchedProc)
          \/ Pause(SchedProc)
    \/ HourlyBatchDone
    \/ DailyTick
    \/ /\ sched.daily.pc = "await" /\ Pending("r1")
       /\ \/ \E clips \in DailyClipLists :
                calculateWeeklyClipRankings("r1", CurrentWeek, clips)
          \/ RankingFetchFails("r1", "clip", CurrentWeek)
    \/ /\ sched.daily.pc = "await" /\ Pending("r2")
       /\ \/ \E campaigns \in DailyCampaignLists :
                calculateWeeklyCampaignRankings("r2", CurrentWeek, campaigns)
          \/ RankingFetchFails("r2", "campaign", CurrentWeek)
    \/ \E r \in RunIds : \/ UpsertClipRanking(r)
                         \/ UpsertCampaignRanking(r)
                         \/ UpsertFails(r)
    \/ DailySettles

SpecScheduler == Init /\ [][NextScheduler]_vars

\* signals arriving at the running process
NextShutdown ==
    \E s \in Signals :
        \/ Signal(s)
        \/ StopEventHandlers(s)
        \/ PublisherDisconnect(s)
        \/ RedisQuit(s)
        \/ AppClose(s)
        \/ ShutdownStepFails(s)
        \/ ProcessExit(s)

SpecShutdown == Init /\ [][NextShutdown]_vars

\* longest batch of SpecSilent
MaxSilentBatch == 2

\* refreshes and batches of one caller, with upstreams that may stay silent
NextSilent ==
    \/ \E clip \in AllClips : RefreshClipStats("p1", clip)
    \/ \E clips \in SeqsUpTo(AllClips, MaxSilentBatch) :
          BatchRefreshStats("p1", clips)
    \/ RefreshSteps("p1")
    \/ Pause("p1")
    \/ UpstreamSilent("p1")

SpecSilent == Init /\ [][NextSilent]_vars

\* refreshes of one caller on clips of the four platforms, the stats taken
\* from upstream response bodies
NextUpstream ==
    \/ \E clip \in {q \in AllClips : q.platform \in KnownPlatforms} :
          RefreshClipStats("p1", clip)
    \/ \E body \in UpstreamBodies : FetchFromUpstream("p1", body)
    \/ RedisSetex("p1")
    \/ RedisSetexFails("p1")
    \/ \E ok \in BOOLEAN : PublishUpdated("p1", ok)

SpecUpstream == Init /\ [][NextUpstream]_vars

(***************************************************************************)
(* Properties of the stats collector                                        *)
(***************************************************************************)
\* the call in `p` has entered refreshClipStats
InRefresh(p) == p.pc \in {"fetch", "cache", "publish"} \/ p.stats # None
                   \/ (p.pc \in {"pause", "done"} /\ p.cached = None)

Calls(p, call) == {j \in 1..Len(p.log) : p.log[j].call = call}

\* C1 as stated: every getOrFetchStats call made while the cache holds an
\* unexpired entry for the key returns exactly the cached tuple and issues no
\* adapter fetch, no cache write and no stats.updated publication.
C1_WarmCacheServed ==
    \A c \in Procs :
        (proc[c].op = "getOrFetch" /\ proc[c].seen # None)
            => /\ proc[c].log = <<>>
               /\ proc[c].pc = "done" => /\ proc[c].outcome = "ok"
                                         /\ proc[c].result = proc[c].seen

\* C1 amended: every getOrFetchStats call made while the cache holds an
\* unexpired entry for the key, and whose cache read succeeds, returns exactly
\* the cached tuple and issues no adapter fetch, no cache write and no
\* stats.updated publication.
C1_WarmCacheReadServed ==
    \A c \in Procs :
        (proc[c].op = "getOrFetch" /\ proc[c].seen # None /\ proc[c].readOk)
            => /\ proc[c].pc = "done"
               /\ proc[c].outcome = "ok"
               /\ proc[c].result = proc[c].seen
               /\ proc[c].log = <<>>

C1_Witness ==
    \E c \in Procs :
        /\ proc[c].op = "getOrFetch" /\ proc[c].pc = "done"
        /\ proc[c].seen # None /\ proc[c].readOk
        /\ proc[c].result = Stats(1000, 80, 20, 5, "url")

\* C2: in every run of refreshClipStats the effects occur in the order
\* platform fetch, cache write attempt, stats.updated publish attempt; the
\* event is published only after the fetch of the same call succeeded and its
\* cache write was attempted, and carries that call's stats; when the fetch
\* fails there is no cache write and no publish and the error reaches the
\* caller.
C2_RefreshOrder ==
    \A c \in Procs :
        LET p == proc[c]
            L == p.log
        IN  /\ \A j \in 1..Len(L) :
                  /\ L[j].call = "adapter" => j = 1
                  /\ L[j].call = "setex" =>
                        j = 2 /\ L[1].call = "adapter" /\ L[1].ok
                  /\ L[j].call = "publish" =>
                        /\ j = 3
                        /\ L[1].call = "adapter" /\ L[1].ok
                        /\ L[2].call = "setex"
                        /\ L[j].arg = StatsUpdated(p.clip.id, p.stats)
            /\ (L # <<>> /\ ~L[1].ok) =>
                  /\ Len(L) = 1
                  /\ p.op # "batch" => p.pc = "done" /\ p.outcome = "threw"
            /\ (p.op # "batch" /\ p.pc = "done" /\ InRefresh(p)) =>
                  \/ p.outcome = "ok" /\ Len(L) = 3
                  \/ /\ p.outcome = "threw"
                     /\ Calls(p, "setex") = {} /\ Calls(p, "publish") = {}

C2_Witness ==
    \E c \in Procs :
        /\ proc[c].op = "refresh" /\ proc[c].pc = "done"
        /\ proc[c].outcome = "ok" /\ Len(proc[c].log) = 3
        /\ \E d \in Procs : proc[d].pc = "done" /\ proc[d].outcome = "threw"
                               /\ Len(proc[d].log) = 1

\* the step in which the call of c returns from refreshClipStats with stats
ReturnsOk(c) ==
    /\ proc[c].pc = "publish"
    /\ proc'[c].pc = "done"
    /\ proc'[c].outcome = "ok"

\* C3 as stated: whenever refreshClipStats returns successfully, the cache key
\* of the clip exists immediately afterwards, holds the returned tuple and has
\* a remaining TTL in (0, 3600].
C3_CachedOnReturn ==
    [][\A c \in Procs :
          ReturnsOk(c) =>
             LET entry == cache'[KeyOf(proc[c].clip)]
             IN  /\ entry # None
                 /\ Held(entry) = proc'[c].result
                 /\ entry.ttl > 0 /\ entry.ttl <= 3600]_vars

\* C3 amended: whenever the cache write of a refreshClipStats call succeeds,
\* the cache key of the clip exists immediately after that write, holds the
\* fetched tuple with TTL exactly 3600 s (so within (0, 3600]), and that
\* tuple is the one the call returns; a call whose cache write failed leaves
\* the key as it was and still returns.
C3_CachedOnWrite ==
    [][\A c \in Procs :
          LET k == KeyOf(proc[c].clip)
          IN  /\ (proc[c].pc = "cache" /\ proc'[c].pc = "publish"
                     /\ proc'[c].wrote) =>
                    /\ cache'[k] # None
                    /\ Held(cache'[k]) = proc[c].stats
                    /\ cache'[k].ttl = 3600
              /\ (proc[c].pc = "cache" /\ proc'[c].pc = "publish"
                     /\ ~proc'[c].wrote) =>
                    cache'[k] = cache[k]
              /\ (proc[c].pc = "cache") => proc'[c].pc \in {"cache", "publish"}
              /\ ReturnsOk(c) =>
                    /\ proc'[c].result = proc[c].stats
                    /\ proc[c].wrote =>
                          proc[c].log[2].arg.value = JSONstringify(proc'[c].result)]_vars

C3_Witness ==
    \E c \in Procs :
        /\ proc[c].op = "refresh" /\ proc[c].pc = "done" /\ proc[c].wrote
        /\ proc[c].result = Stats(1000, 80, 20, 5, "url")
        /\ cache[KeyOf(proc[c].clip)] =
              [value |-> JSONstringify(proc[c].result), ttl |-> 3600]

\* C4: a failure of the cache write or of the event publish inside
\* refreshClipStats never propagates: once the fetch has succeeded the call
\* cannot throw and returns the fetched stats, and after a failed cache write
\* the publish of the same call is still attempted.
C4_BestEffortSwallowed ==
    \A c \in Procs :
        LET p == proc[c]
            L == p.log
        IN  (p.op # "batch" /\ L # <<>> /\ L[1].ok) =>
               /\ p.outcome # "threw"
               /\ p.pc \in {"cache", "publish", "done"}
               /\ p.pc = "done" =>
                     /\ p.outcome = "ok"
                     /\ p.result = p.stats
                     /\ Len(L) = 3 /\ L[3].call = "publish"
               /\ (Len(L) >= 2 /\ ~L[2].ok) => p.pc \in {"publish", "done"}

C4_Witness ==
    \E c \in Procs :
        /\ proc[c].pc = "done" /\ proc[c].outcome = "ok"
        /\ Len(proc[c].log) = 3
        /\ ~proc[c].log[2].ok /\ ~proc[c].log[3].ok
        /\ proc[c].result = proc[c].stats

\* C21 as stated: every platform fetch carries a timeout, so no
\* refreshClipStats call stays pending on an upstream that never answers (it
\* fails instead), and therefore no batchRefreshStats run gets stuck on a
\* clip.
C21_NoCallHangs ==
    \A c \in Procs :
        proc[c].upstream = "silent" =>
            /\ RequestTimeoutMs(proc[c].clip.platform) > 0
            /\ proc[c].pc # "hung"

NonNegative(stats) ==
    /\ stats.views >= 0 /\ stats.likes >= 0
    /\ stats.comments >= 0 /\ stats.shares >= 0

\* C22 as stated: every tuple produced by fetchPlatformStats, every tuple
\* written to the cache and every tuple carried by a stats.updated event has
\* views, likes, comments and shares >= 0, whatever the upstream answered.
C22_CountersNonNegative ==
    /\ \A c \in Procs :
          /\ proc[c].stats # None => NonNegative(proc[c].stats)
          /\ \A j \in Calls(proc[c], "publish") :
                NonNegative(proc[c].log[j].arg)
    /\ \A k \in CacheKeys : cache[k] # None => NonNegative(cache[k].value)

\* the step in which the call of c writes the cache entry of key k
WritesKey(c, k) ==
    /\ proc[c].pc = "cache" /\ proc'[c].pc = "publish" /\ proc'[c].wrote
    /\ k = getCacheKey(proc[c].clip.platform, proc[c].clip.videoId)
    /\ cache'[k] = [value |-> JSONstringify(proc[c].stats),
                    ttl |-> CACHE_TTL_SECONDS]

\* the step in which getOrFetchStats of c returns the cached tuple
ServedFromCache(c) ==
    /\ proc'[c] # proc[c]
    /\ proc'[c].op = "getOrFetch" /\ proc'[c].pc = "done"
    /\ proc'[c].cached # None

\* seconds since the entry was written, given that writes set 3600 s
EntryAge(entry) == CACHE_TTL_SECONDS - entry.ttl

\* C23: every stats-cache write uses the key stats:{platform}:{videoId} of
\* the refreshed clip and a TTL of exactly 3600 s; an entry changes only by
\* such a write of refreshClipStats or by Redis counting its TTL down; so
\* the tuple getOrFetchStats serves from the cache was written less than
\* 3600 s earlier.
C23_SoleWriterFixedTTL ==
    /\ [](\A c \in Procs : \A j \in Calls(proc[c], "setex") :
             LET w == proc[c].log[j].arg
             IN  /\ w.key = <<"stats", proc[c].clip.platform,
                              proc[c].clip.videoId>>
                 /\ w.ttl = 3600)
    /\ [](\A k \in CacheKeys :
             cache[k] # None => cache[k].ttl \in 1..3600)
    /\ [][\A k \in CacheKeys :
             cache'[k] # cache[k] =>
                \/ cache'[k] = Aged(cache[k])
                \/ \E c \in Procs : WritesKey(c, k)]_vars
    /\ [][\A c \in Procs :
             ServedFromCache(c) =>
                LET entry == cache[KeyOf(proc'[c].clip)]
                IN  /\ entry # None
                    /\ proc'[c].result = Held(entry)
                    /\ EntryAge(entry) >= 0 /\ EntryAge(entry) < 3600]_vars

\* a tuple served from an entry written 1800 s earlier
C23_Witness ==
    \E c \in Procs :
        /\ proc[c].op = "getOrFetch" /\ proc[c].pc = "done"
        /\ proc[c].cached # None
        /\ cache[KeyOf(proc[c].clip)] # None
        /\ EntryAge(cache[KeyOf(proc[c].clip)]) = 1800
        /\ proc[c].result = Held(cache[KeyOf(proc[c].clip)])

\* C24: when the cache read fails or the cached text cannot be parsed,
\* getCachedStats answers absent without throwing, and getOrFetchStats goes
\* on as on a miss: it runs refreshClipStats and returns the freshly fetched
\* stats (or the error of the refresh), never the cached tuple.
C24_ReadFailureIsMiss ==
    \A c \in Procs :
        LET p == proc[c]
        IN  (p.op = "getOrFetch" /\ ~p.readOk) =>
               /\ p.cached = None
               /\ p.pc # "idle"
               /\ (p.pc = "done" /\ p.outcome = "ok") =>
                     /\ Len(p.log) = 3
                     /\ p.log[1].call = "adapter" /\ p.log[1].ok
                     /\ p.result = p.stats
               /\ (p.pc = "done" /\ p.outcome = "threw") =>
                     \/ p.clip.platform \notin KnownPlatforms
                     \/ /\ p.log # <<>>
                        /\ p.log[1].call = "adapter" /\ ~p.log[1].ok

\* a call whose read failed although the key held (1000, 80, 20, 5): it
\* returned the zeros fetched afresh
C24_Witness ==
    \E c \in Procs :
        /\ proc[c].op = "getOrFetch" /\ ~proc[c].readOk
        /\ proc[c].seen = Stats(1000, 80, 20, 5, "url")
        /\ proc[c].pc = "done" /\ proc[c].outcome = "ok"
        /\ proc[c].result = ZeroStats("undefined")

\* C28: every stats.updated event refreshClipStats publishes carries
\* clipId = submissionId and the four fetched counters unchanged; its
\* engagement is (likes + comments) / views when views > 0 and exactly 0 when
\* views = 0, always a finite number; for (1000, 80, 20) it is 0.1.
C28_EventCarriesFetchedStats ==
    \A c \in Procs :
        \A j \in Calls(proc[c], "publish") :
            LET e == proc[c].log[j].arg
                s == proc[c].stats
            IN  /\ e.type = "stats.updated"
                /\ e.clipId = proc[c].clip.id
                /\ e.views = s.views /\ e.likes = s.likes
                /\ e.comments = s.comments /\ e.shares = s.shares
                /\ e.engagement.den # 0
                /\ s.views > 0 =>
                      e.engagement.num * s.views
                         = (s.likes + s.comments) * e.engagement.den
                /\ s.views = 0 => e.engagement.num = 0
                /\ (s.views = 1000 /\ s.likes = 80 /\ s.comments = 20) =>
                      e.engagement.num * 10 = e.engagement.den

\* the event for the fetched tuple (1000, 80, 20, 5) went out with
\* engagement 0.1
C28_Witness ==
    \E c \in Procs :
        \E j \in Calls(proc[c], "publish") :
            /\ proc[c].log[j].ok
            /\ proc[c].stats = Stats(1000, 80, 20, 5, "url")
            /\ proc[c].log[j].arg.views = 1000
            /\ proc[c].log[j].arg.engagement.num * 10
                  = proc[c].log[j].arg.engagement.den

\* the event for a tuple with views 0 and likes 80 went out with engagement 0
C28_WitnessNoViews ==
    \E c \in Procs :
        \E j \in Calls(proc[c], "publish") :
            /\ proc[c].stats.views = 0 /\ proc[c].stats.likes = 80
            /\ proc[c].log[j].arg.engagement.num = 0

\* the requests and the responses of a getInstagramStats call, in order
Posts(p) == SelectSeq(p.log, LAMBDA e : e.call = "post")

Answers(p) == SelectSeq(p.log, LAMBDA e : e.call = "response")

\* C33: one Instagram fetch issues at most two POST requests; the second is
\* issued only when the first response carries error COMPUTE_REQUIRED and a
\* challenge, repeats the payload of the first and carries X-Compute =
\* expectedCompute and X-Timestamp = timestamp of that challenge; when the
\* second response still carries an error no further request is made and the
\* all-zero tuple is returned.
C33_AtMostTwoPosts ==
    \A c \in Procs :
        LET p == proc[c]
            posts == Posts(p)
            answers == Answers(p)
        IN  p.op = "instagram" =>
               /\ Len(posts) <= 2
               /\ Len(posts) = 2 =>
                     LET first == answers[1].arg
                     IN  /\ answers[1].ok
                         /\ first.error = "COMPUTE_REQUIRED"
                         /\ first.challenge # None
                         /\ posts[2].arg.payload = posts[1].arg.payload
                         /\ posts[2].arg.xCompute
                               = toString(first.challenge.expectedCompute.value)
                         /\ posts[2].arg.xTimestamp
                               = toString(first.challenge.timestamp.value)
               /\ (Len(answers) = 2 /\ answers[2].ok
                      /\ answers[2].arg.error # "none") =>
                     /\ p.pc = "done" /\ p.outcome = "ok"
                     /\ p.result = ZeroStats("null")

\* a fetch whose first response was the challenge (17, 42) and whose second
\* response was an error again: two posts, the second with headers 42 and 17,
\* zeros returned
C33_Witness ==
    \E c \in Procs :
        /\ proc[c].op = "instagram" /\ proc[c].pc = "done"
        /\ Len(Posts(proc[c])) = 2 /\ Len(Answers(proc[c])) = 2
        /\ Posts(proc[c])[2].arg.xCompute = toString(42)
        /\ Posts(proc[c])[2].arg.xTimestamp = toString(17)
        /\ Answers(proc[c])[2].ok
        /\ Answers(proc[c])[2].arg.error = "COMPUTE_REQUIRED"
        /\ proc[c].result = ZeroStats("null")

(***************************************************************************)
(* Properties of batchRefreshStats                                          *)
(***************************************************************************)
Refreshes(p) == SelectSeq(p.timeline, LAMBDA e : e.kind = "refresh")

\* C5: for every input list of N clips and every pattern of per-clip
\* failures, batchRefreshStats attempts each clip exactly once in input
\* order, never stops early, and returns successCount + failCount = N with
\* failCount the number of clips whose refreshClipStats threw.
C5_BatchCounts ==
    \A c \in Procs :
        LET p == proc[c]
            R == Refreshes(p)
        IN  p.op = "batch" =>
               /\ Len(R) <= Len(p.clips)
               /\ \A j \in 1..Len(R) : R[j].clip = p.clips[j]
               /\ p.failCount = Cardinality({j \in 1..Len(R) : R[j].threw})
               /\ p.successCount + p.failCount = Len(R)
               /\ p.pc = "done" =>
                     /\ Len(R) = Len(p.clips)
                     /\ p.outcome = "ok"
                     /\ p.result = [successCount |-> p.successCount,
                                    failCount |-> p.failCount]
                     /\ p.result.successCount + p.result.failCount
                           = Len(p.clips)

C5_Witness ==
    \E c \in Procs :
        LET p == proc[c]
        IN  /\ p.op = "batch" /\ p.pc = "done" /\ Len(p.clips) = 3
            /\ ~Refreshes(p)[1].threw
            /\ Refreshes(p)[2].threw
            /\ ~Refreshes(p)[3].threw
            /\ p.result = [successCount |-> 2, failCount |-> 1]

\* C6: within one batchRefreshStats run the refreshes are strictly
\* sequential: the refresh of clip i+1 starts only after the refresh of clip
\* i has finished and a 100 ms pause has elapsed; exactly one pause follows
\* every clip, failed ones and the last one included, so a batch of N clips
\* lasts at least 100*N ms.
C6_BatchPacing ==
    \A c \in Procs :
        LET p == proc[c]
            T == p.timeline
        IN  p.op = "batch" =>
               /\ \A j \in 1..Len(T) :
                     /\ (j % 2 = 1) => /\ T[j].kind = "refresh"
                                       /\ T[j].at = 100 * ((j - 1) \div 2)
                     /\ (j % 2 = 0) => T[j].kind = "pause"
               /\ p.pc \in {"fetch", "cache", "publish"} =>
                     Len(T) = 2 * (p.i - 1)
               /\ p.pc = "pause" => Len(T) = 2 * p.i - 1
               /\ p.pc = "done" => /\ Len(T) = 2 * Len(p.clips)
                                   /\ p.elapsedMs >= 100 * Len(p.clips)

C6_Witness ==
    \E c \in Procs :
        LET p == proc[c]
        IN  /\ p.op = "batch" /\ p.pc = "done" /\ Len(p.clips) = 3
            /\ p.timeline[3].threw /\ p.timeline[4].kind = "pause"
            /\ p.timeline[6].kind = "pause"
            /\ p.elapsedMs = 300

\* the INSTAGRAM clips among the first n clips of a batch
InstagramUpTo(p, n) == {j \in 1..n : p.clips[j].platform = "INSTAGRAM"}

\* C16: for an INSTAGRAM clip the fetch never fails: when the upstream call
\* fails it yields the all-zero tuple, refreshClipStats goes on to its cache
\* write and its stats.updated publication with the zeros and returns them;
\* in batchRefreshStats every INSTAGRAM clip is counted in successCount and
\* none in failCount.
C16_InstagramNeverFails ==
    \A c \in Procs :
        LET p == proc[c]
            L == p.log
            R == Refreshes(p)
            zeros == ZeroStats("null")
        IN  /\ (/\ p.clip # None /\ p.clip.platform = "INSTAGRAM"
                /\ p.upstream = "failed")
                  => /\ p.stats = zeros
                     /\ L[1] = Effect("adapter", TRUE, "INSTAGRAM")
                     /\ p.outcome # "threw"
                     /\ \A j \in Calls(p, "setex") :
                           j = 2 /\ L[j].arg.value = JSONstringify(zeros)
                     /\ \A j \in Calls(p, "publish") :
                           j = 3 /\ L[j].arg = StatsUpdated(p.clip.id, zeros)
                     /\ p.pc \in {"pause", "done"} => Len(L) = 3
                     /\ (p.op = "refresh" /\ p.pc = "done") =>
                           (p.outcome = "ok" /\ p.result = zeros)
            /\ p.op = "batch" =>
                  /\ \A j \in 1..Len(R) :
                        R[j].clip.platform = "INSTAGRAM" => ~R[j].threw
                  /\ p.successCount >= Cardinality(InstagramUpTo(p, Len(R)))
                  /\ p.failCount <= Len(R) - Cardinality(InstagramUpTo(p, Len(R)))

\* a finished batch whose second clip is an INSTAGRAM clip with a failed
\* upstream call, counted as a success next to a failed first clip
C16_Witness ==
    \E c \in Procs :
        LET p == proc[c]
        IN  /\ p.op = "batch" /\ p.pc = "done" /\ Len(p.clips) = 2
            /\ Refreshes(p)[1].threw
            /\ Refreshes(p)[2].clip.platform = "INSTAGRAM"
            /\ Refreshes(p)[2].upstream = "failed"
            /\ p.result = [successCount |-> 1, failCount |-> 1]

\* the clips of a batch whose platform matches no case of the switch
UnsupportedIn(clips) ==
    {j \in 1..Len(clips) : clips[j].platform \notin KnownPlatforms}

\* C26: for a platform string other than exactly YOUTUBE, TIKTOK, INSTAGRAM
\* or TWITTER fetchPlatformStats throws without calling an adapter, so the
\* refresh of such a clip writes nothing to the cache and publishes nothing:
\* a direct call ends with the error, a batch counts the clip in failCount.
C26_UnsupportedPlatformFails ==
    /\ [](\A c \in Procs :
            (proc[c].clip # None
                /\ proc[c].clip.platform \notin KnownPlatforms) =>
               /\ proc[c].log = <<>> /\ ~proc[c].wrote
               /\ proc[c].stats = None
               /\ proc[c].pc \in {"fetch", "pause", "done"}
               /\ (proc[c].pc = "done" /\ proc[c].op = "refresh") =>
                     proc[c].outcome = "threw")
    /\ [](\A c \in Procs :
            (proc[c].op = "batch" /\ proc[c].pc = "done") =>
               /\ proc[c].failCount >=
                     Cardinality(UnsupportedIn(proc[c].clips))
               /\ \A j \in 1..Len(proc[c].timeline) :
                     (proc[c].timeline[j].kind = "refresh"
                         /\ proc[c].timeline[j].clip.platform
                               \notin KnownPlatforms) =>
                        proc[c].timeline[j].threw)
    /\ [][\A c \in Procs :
            (proc[c].pc = "fetch"
                /\ proc[c].clip.platform \notin KnownPlatforms
                /\ proc'[c] # proc[c]) =>
               /\ cache' = cache
               /\ proc[c].op = "batch" =>
                     /\ proc'[c].failCount = proc[c].failCount + 1
                     /\ proc'[c].successCount = proc[c].successCount]_vars

\* a batch of a TIKTOK clip and a clip of platform "youtube": one success, one
\* failure, and only the TIKTOK key is in the cache
C26_Witness ==
    \E c \in Procs :
        /\ proc[c].op = "batch" /\ proc[c].pc = "done"
        /\ Len(proc[c].clips) = 2
        /\ proc[c].clips[1].platform = "TIKTOK"
        /\ proc[c].clips[2].platform = "youtube"
        /\ proc[c].successCount = 1 /\ proc[c].failCount = 1
        /\ cache[KeyOf(proc[c].clips[1])] # None
        /\ cache[KeyOf(proc[c].clips[2])] = None

(***************************************************************************)
(* Properties of the rankings engine                                        *)
(***************************************************************************)
\* (views, engagement) of x is lexicographically >= that of y
LexGE(vx, ex, vy, ey) == vx > vy \/ (vx = vy /\ ex >= ey)

\* one finished run wrote dense ranks in sort-key order for its items
RanksDenseAndOrdered(run, table, Views(_), Eng(_)) ==
    LET N == Len(run.input)
        row(j) == table[<<run.start, run.input[j].id>>]
    IN  /\ \A j \in 1..N :
              /\ row(j) # None
              /\ Views(row(j)) = Views(run.input[j])
              /\ Eng(row(j)) = Eng(run.input[j])
        /\ {row(j).rank : j \in 1..N} = 1..N
        /\ \A i, j \in 1..N :
              /\ row(i).rank <= row(j).rank =>
                    LexGE(Views(row(i)), Eng(row(i)), Views(row(j)), Eng(row(j)))
              /\ (Views(row(i)) = Views(row(j)) /\ Eng(row(i)) > Eng(row(j)))
                    => row(i).rank < row(j).rank

ClipViews(x) == x.views
ClipEng(x) == x.engagement
CampaignViews(x) == x.totalViews
CampaignEng(x) == x.avgEngagement

\* C7: for one ranking run (clips or campaigns) on a non-empty input of N
\* items with distinct ids that completes without error, the ranks written
\* are exactly 1..N without gap or duplicate, a smaller or equal rank goes
\* with a lexicographically greater or equal (views, engagement) (campaigns:
\* (totalViews, avgEngagement)), and with equal views the higher engagement
\* gets the smaller rank.
C7_RunRanksDenseOrdered ==
    \A r \in RunIds :
        LET run == rankRun[r]
        IN  (run.pc = "done" /\ run.outcome = "ok" /\ Len(run.input) > 0
                /\ DistinctIds(run.input)) =>
               IF run.kind = "clip"
               THEN RanksDenseAndOrdered(run, weeklyClipRanking,
                                         ClipViews, ClipEng)
               ELSE RanksDenseAndOrdered(run, weeklyCampaignRanking,
                                         CampaignViews, CampaignEng)

\* two clips with views 100 and engagement 0.1, 0.2 in that input order: the
\* second gets rank 1
C7_Witness ==
    \E r \in RunIds :
        LET run == rankRun[r]
        IN  /\ run.pc = "done" /\ run.outcome = "ok" /\ run.kind = "clip"
            /\ Len(run.input) = 2 /\ DistinctIds(run.input)
            /\ run.input[1].views = 100 /\ run.input[2].views = 100
            /\ run.input[1].engagement = 1 /\ run.input[2].engagement = 2
            /\ weeklyClipRanking[<<run.start, run.input[2].id>>].rank = 1
            /\ weeklyClipRanking[<<run.start, run.input[1].id>>].rank = 2

Dense(rows) == {x.rank : x \in rows} = 1..Cardinality(rows)

\* C8: after any sequence of completed calculateWeeklyClipRankings runs, whose
\* inputs may differ from run to run, the ranks stored in weekly_clip_ranking
\* form a contiguous sequence 1..N without duplicates for every weekStart and
\* for every (weekStart, platform) slice.
C8_StoredRanksDense ==
    (\A r \in RunIds : rankRun[r].pc \in {"idle", "done"}) =>
        \A w \in Weeks :
            /\ Dense(getWeeklyClipRankings(w, "none"))
            /\ \A pf \in {PlatformOf(id) : id \in RankedIds} :
                  Dense(getWeeklyClipRankings(w, pf))

\* the rows of either ranking table
RankingRows ==
    {weeklyClipRanking[q] : q \in {x \in Weeks \X RankedIds :
                                        weeklyClipRanking[x] # None}}
    \cup {weeklyCampaignRanking[q] : q \in {x \in Weeks \X RankedIds :
                                        weeklyCampaignRanking[x] # None}}

\* the table row of the item at position j of a run
RowOf(run, j) ==
    IF run.kind = "clip"
    THEN weeklyClipRanking[<<run.start, run.ranked[j].id>>]
    ELSE weeklyCampaignRanking[<<run.start, run.ranked[j].id>>]

\* C25: when the upsert of the item at rank k fails in a ranking calculation,
\* the error reaches the caller, no upsert for a rank above k is issued in
\* that run (starting from empty tables no row holds a rank of k or more),
\* and the rows of the ranks below k written before stay written.
C25_FailedUpsertStopsRun ==
    \A r \in RunIds :
        LET run == rankRun[r]
            k == run.failedAt
        IN  k # 0 =>
               /\ run.pc = "done" /\ run.outcome = "threw"
               /\ run.i = k
               /\ \A row \in RankingRows : row.rank < k
               /\ \A j \in 1..(k - 1) :
                     /\ RowOf(run, j) # None
                     /\ RowOf(run, j).rank \in j..(k - 1)
                     /\ DistinctIds(run.input) => RowOf(run, j).rank = j

\* a run over three items whose second upsert failed: the row of rank 1 is
\* there, the third item has no row
C25_Witness ==
    \E r \in RunIds :
        LET run == rankRun[r]
        IN  /\ run.failedAt = 2 /\ Len(run.ranked) = 3
            /\ DistinctIds(run.input)
            /\ run.pc = "done" /\ run.outcome = "threw"
            /\ RowOf(run, 1) # None /\ RowOf(run, 1).rank = 1
            /\ RowOf(run, 2) = None /\ RowOf(run, 3) = None

\* the ids of the clips in the answer run r worked on
IdsOf(r) == {rankRun[r].input[j].id : j \in 1..Len(rankRun[r].input)}

\* both calculations of the week have returned, their two snapshots listing
\* the same clips with counters of their own
BothRunsDone ==
    /\ \A r \in RunIds :
          /\ rankRun[r].kind = "clip" /\ rankRun[r].pc = "done"
          /\ rankRun[r].outcome = "ok" /\ rankRun[r].start = "w1"
    /\ IdsOf("r1") = IdsOf("r2")

\* the rows run r leaves in an empty table when it runs alone
RowsAlone(r) ==
    LET run == rankRun[r]
    IN  {[weekStart |-> run.start, weekEnd |-> endOfWeek(run.start),
          submissionId |-> run.ranked[j].id,
          platform |-> run.ranked[j].platform,
          views |-> run.ranked[j].views, likes |-> run.ranked[j].likes,
          engagement |-> run.ranked[j].engagement, rank |-> j] :
             j \in 1..Len(run.ranked)}

\* C37: after two concurrent calculateWeeklyClipRankings runs for one week
\* have finished, the rows of the week are the rows one of the two runs
\* would have stored alone: no rank is stored twice and every row carries
\* the counters and the rank of one and the same run.
C37_RowsOfOneRun ==
    BothRunsDone =>
        LET rows == getWeeklyClipRankings("w1", "none")
        IN  /\ \E r \in RunIds : rows = RowsAlone(r)
            /\ \A x, y \in rows : x.rank = y.rank => x = y
            /\ \A x \in rows : \E r \in RunIds : x \in RowsAlone(r)

(***************************************************************************)
(* Properties of the bot detector                                           *)
(***************************************************************************)
IsSignificant(f) == f.severity \in {"HIGH", "MEDIUM"}

\* what detectAnomalies returned holds a HIGH or MEDIUM flag
ReturnedSignificant(b) ==
    /\ b.detected # None
    /\ b.detected # Threw
    /\ \E i \in 1..Len(b.detected.flags) : IsSignificant(b.detected.flags[i])

\* the first HIGH or MEDIUM flag in emission order
FirstSignificant(flags) ==
    flags[CHOOSE i \in 1..Len(flags) :
            /\ IsSignificant(flags[i])
            /\ \A j \in 1..(i - 1) : ~IsSignificant(flags[j])]

\* C9: a finished runBotDetection call has issued a stats.bot_detected
\* publication if and only if detectAnomalies returned at least one HIGH or
\* MEDIUM flag; it never issues more than one per call; the event's flagType
\* is the type of the first such flag in emission order and its confidence
\* equals confidenceScore / 100, a value in [0,1].
C9_PublishPolicy ==
    /\ Len(bot.log) <= 1
    /\ bot.pc = "done" => (Len(bot.log) = 1 <=> ReturnedSignificant(bot))
    /\ \A i \in 1..Len(bot.log) :
          LET event == bot.log[i].arg
              score == bot.detected.confidenceScore
          IN  /\ bot.log[i].call = "publish"
              /\ event.type = "stats.bot_detected"
              /\ event.clipId = bot.clipId
              /\ ReturnedSignificant(bot)
              /\ event.flagType = FirstSignificant(bot.detected.flags).type
              /\ event.confidence.den > 0 /\ score.den > 0
              /\ event.confidence.num * score.den * 100
                    = score.num * event.confidence.den
              /\ event.confidence.num >= 0
              /\ event.confidence.num <= event.confidence.den

\* TIKTOK 1000 -> 12000 views: one event, VIEWS_SPIKE, confidence 0.90
C9_Witness ==
    /\ bot.pc = "done"
    /\ Len(bot.log) = 1
    /\ bot.data.platform = "TIKTOK"
    /\ HistoryOf(bot.data) = <<Entry(12000, 20, 0, 0), Entry(1000, 15, 0, 0)>>
    /\ bot.detected.flags = <<Flag("VIEWS_SPIKE", "HIGH", 90)>>
    /\ bot.log[1].arg.flagType = "VIEWS_SPIKE"
    /\ bot.log[1].arg.confidence.num * 10 = 9 * bot.log[1].arg.confidence.den

\* C10: for every history with fewer than 2 entries and every platform
\* string detectAnomalies returns {hasAnomalies: false, flags: [],
\* confidenceScore: 0}, and runBotDetection on such a history publishes no
\* event.
C10_ShortHistoryEmpty ==
    (bot.data # None /\ Len(HistoryOf(bot.data)) < 2) =>
        /\ bot.detected = EmptyResult
        /\ bot.log = <<>>
        /\ bot.pc = "done"
        /\ bot.result = EmptyResult

\* a single snapshot that alone would look like a spike
C10_Witness ==
    /\ bot.pc = "done"
    /\ bot.data # None
    /\ HistoryOf(bot.data) = <<Entry(2000, 900, 200, 0)>>
    /\ bot.data.platform = "constructor"
    /\ bot.detected = EmptyResult
    /\ bot.log = <<>>

\* C11: every result of detectAnomalies has hasAnomalies true exactly when
\* flags is non-empty and confidenceScore 0 exactly when flags is empty;
\* otherwise confidenceScore is the arithmetic mean of the flags'
\* confidences; every flag confidence and the confidenceScore lie in [0,100].
C11_ResultShape ==
    (bot.detected # None /\ bot.detected # Threw) =>
        LET result == bot.detected
            n == Len(result.flags)
            total == Sum([i \in 1..n |-> result.flags[i].confidence])
            score == result.confidenceScore
        IN  /\ result.hasAnomalies <=> n > 0
            /\ score.den > 0
            /\ score.num = 0 <=> n = 0
            /\ n > 0 => score.num * n = total * score.den
            /\ \A i \in 1..n : /\ result.flags[i].confidence >= 0
                               /\ result.flags[i].confidence <= 100
            /\ score.num >= 0 /\ score.num <= 100 * score.den

\* two flags whose mean, 77.5, is no flag's confidence
C11_Witness ==
    /\ bot.detected # None /\ bot.detected # Threw
    /\ HistoryOf(bot.data) = OneHourHistory
    /\ Len(bot.detected.flags) = 2
    /\ bot.detected.flags[1].confidence = 85
    /\ bot.detected.flags[2].confidence = 70
    /\ bot.detected.confidenceScore.num * 2 = 155 * bot.detected.confidenceScore.den

\* C12: runBotDetection never throws: when the history fetch fails it
\* returns the empty result and has published nothing; when publishing
\* stats.bot_detected fails it still returns, unchanged, the result
\* detectAnomalies computed.
C12_NeverThrows ==
    /\ bot.outcome # "threw"
    /\ bot.pc = "done" =>
          /\ bot.outcome = "returned"
          /\ bot.data = None => (bot.result = EmptyResult /\ bot.log = <<>>)
          /\ \A i \in 1..Len(bot.log) :
                ~bot.log[i].ok =>
                    bot.result = detectAnomalies(HistoryOf(bot.data),
                                                 PlatformOfData(bot.data))

\* a call whose publish was rejected and that returned its flags
C12_Witness ==
    /\ bot.pc = "done"
    /\ bot.outcome = "returned"
    /\ Len(bot.log) = 1
    /\ ~bot.log[1].ok
    /\ bot.result.hasAnomalies
    /\ Len(bot.result.flags) = 3

FlagTypes ==
    {"VIEWS_SPIKE", "LIKES_SPIKE", "COMMENTS_SPIKE", "ENGAGEMENT_RATIO",
     "ZERO_VARIANCE", "VELOCITY_ANOMALY", "RATIO_ANOMALY", "SUDDEN_STOP",
     "TIME_PATTERN"}

\* the positions of the flags of one type
OfType(flags, type) == {i \in 1..Len(flags) : flags[i].type = type}

\* C29: in every detectAnomalies result each flag type occurs at most once;
\* ZERO_VARIANCE, VELOCITY_ANOMALY and RATIO_ANOMALY are never emitted for a
\* history shorter than 5, SUDDEN_STOP never for one shorter than 12,
\* TIME_PATTERN never for one shorter than 24.
C29_FlagsOncePerTypeAndGated ==
    (bot.detected # None /\ bot.detected # Threw) =>
        LET flags == bot.detected.flags
            n == Len(HistoryOf(bot.data))
        IN  /\ \A i \in 1..Len(flags) : flags[i].type \in FlagTypes
            /\ \A type \in FlagTypes : Cardinality(OfType(flags, type)) <= 1
            /\ n < 5 => /\ OfType(flags, "ZERO_VARIANCE") = {}
                        /\ OfType(flags, "VELOCITY_ANOMALY") = {}
                        /\ OfType(flags, "RATIO_ANOMALY") = {}
            /\ n < 12 => OfType(flags, "SUDDEN_STOP") = {}
            /\ n < 24 => OfType(flags, "TIME_PATTERN") = {}

\* a history of exactly 24 entries for which TIME_PATTERN is emitted
C29_Witness ==
    /\ bot.detected # None /\ bot.detected # Threw
    /\ Len(HistoryOf(bot.data)) = 24
    /\ OfType(bot.detected.flags, "TIME_PATTERN") # {}

\* four entries whose accelerations pass the test of detectVelocityAnomaly:
\* no flag at all; and two entries whose likes pass the test of
\* detectRatioAnomaly: no RATIO_ANOMALY
C29_WitnessShort ==
    /\ bot.detected # None /\ bot.detected # Threw
    /\ HistoryOf(bot.data) = ShortJumpHistory
    /\ detectVelocityAnomaly(ShortJumpHistory) # <<>>
    /\ bot.detected.flags = <<>>
    /\ detectRatioAnomaly(Entry(2000, 900, 200, 0), "TIKTOK") # <<>>

\* growth from previous to current, in percent, is above the threshold; from
\* 0 to a positive value it is above every threshold
GrowthAbove(previous, current, threshold) ==
    IF previous = 0 THEN current > 0
    ELSE (current - previous) * 100 > threshold * previous

\* C30: for a history of at least two entries and the thresholds T of the
\* platform, detectAnomalies emits VIEWS_SPIKE HIGH (confidence 90) iff the
\* growth of views is above T.viewsSpike.high and the delta above
\* 2 * T.minViews; otherwise VIEWS_SPIKE MEDIUM (70) iff the growth is above
\* T.viewsSpike.medium and the delta above T.minViews; otherwise no
\* VIEWS_SPIKE. For TIKTOK, views 1000 -> 12000 and likes 15 -> 20 the
\* result is the single flag VIEWS_SPIKE HIGH with confidenceScore 90.
C30_ViewsSpikeRule ==
    (bot.detected # None /\ bot.detected # Threw
        /\ Len(HistoryOf(bot.data)) >= 2) =>
        LET history == HistoryOf(bot.data)
            T == Thresholds(PlatformOfData(bot.data))
            flags == bot.detected.flags
            delta == history[1].views - history[2].views
            high == /\ GrowthAbove(history[2].views, history[1].views,
                                   T.viewsSpike.high)
                    /\ delta > 2 * T.minViews
            medium == /\ ~high
                      /\ GrowthAbove(history[2].views, history[1].views,
                                     T.viewsSpike.medium)
                      /\ delta > T.minViews
            spikes == {flags[i] : i \in OfType(flags, "VIEWS_SPIKE")}
        IN  /\ high => spikes = {Flag("VIEWS_SPIKE", "HIGH", 90)}
            /\ medium => spikes = {Flag("VIEWS_SPIKE", "MEDIUM", 70)}
            /\ (~high /\ ~medium) => spikes = {}
            /\ (/\ PlatformOfData(bot.data) = "TIKTOK"
                /\ history = <<Entry(12000, 20, 0, 0), Entry(1000, 15, 0, 0)>>)
                  => /\ flags = <<Flag("VIEWS_SPIKE", "HIGH", 90)>>
                     /\ bot.detected.confidenceScore.num
                           = 90 * bot.detected.confidenceScore.den

\* TIKTOK, 1000 -> 12000 views and 15 -> 20 likes: VIEWS_SPIKE HIGH alone
C30_Witness ==
    /\ bot.detected # None /\ bot.detected # Threw
    /\ PlatformOfData(bot.data) = "TIKTOK"
    /\ HistoryOf(bot.data) = <<Entry(12000, 20, 0, 0), Entry(1000, 15, 0, 0)>>
    /\ bot.detected.flags = <<Flag("VIEWS_SPIKE", "HIGH", 90)>>

\* TIKTOK, 0 -> 1000 views: the growth is infinite, the delta is above
\* minViews but not above twice minViews: VIEWS_SPIKE MEDIUM
C30_WitnessMedium ==
    /\ bot.detected # None /\ bot.detected # Threw
    /\ PlatformOfData(bot.data) = "TIKTOK"
    /\ Len(HistoryOf(bot.data)) = 2
    /\ HistoryOf(bot.data)[1].views = 1000
    /\ HistoryOf(bot.data)[2].views = 0
    /\ OfType(bot.detected.flags, "VIEWS_SPIKE") # {}
    /\ bot.detected.flags[1] = Flag("VIEWS_SPIKE", "MEDIUM", 70)

\* (likes + comments) / views of an entry is above the threshold, given in
\* hundredths
RatioAbove(latest, threshold) ==
    /\ latest.views > 0
    /\ (latest.likes + latest.comments) * 100 > threshold * latest.views

\* C31: for a history of at least two entries, with r = (latest.likes +
\* latest.comments) / latest.views, detectAnomalies emits ENGAGEMENT_RATIO
\* HIGH (confidence 92) when r > engagementRatio.high and latest.views >
\* minViews, and otherwise ENGAGEMENT_RATIO MEDIUM (confidence 75) whenever
\* r > engagementRatio.medium.
C31_EngagementRatioRule ==
    (bot.detected # None /\ bot.detected # Threw
        /\ Len(HistoryOf(bot.data)) >= 2) =>
        LET latest == HistoryOf(bot.data)[1]
            T == Thresholds(PlatformOfData(bot.data))
            flags == bot.detected.flags
            high == /\ RatioAbove(latest, T.engagementRatio.high)
                    /\ latest.views > T.minViews
            ratios == {flags[i] : i \in OfType(flags, "ENGAGEMENT_RATIO")}
        IN  /\ high => ratios = {Flag("ENGAGEMENT_RATIO", "HIGH", 92)}
            /\ (~high /\ RatioAbove(latest, T.engagementRatio.medium)) =>
                  ratios = {Flag("ENGAGEMENT_RATIO", "MEDIUM", 75)}

\* C32 as stated: for YOUTUBE and the newest-first views 2200, 2000, 1818,
\* 1653, 1503, 1367 detectAnomalies emits ZERO_VARIANCE HIGH with confidence
\* 95, hasAnomalies is true and confidenceScore is 95.
C32_TenPercentFlagged ==
    (bot.detected # None /\ bot.detected # Threw
        /\ PlatformOfData(bot.data) = "YOUTUBE"
        /\ HistoryOf(bot.data) = TenPercentHistory) =>
        /\ bot.detected.flags = <<Flag("ZERO_VARIANCE", "HIGH", 95)>>
        /\ bot.detected.hasAnomalies
        /\ bot.detected.confidenceScore.num
              = 95 * bot.detected.confidenceScore.den

\* C32: for YOUTUBE and that history, whose growth is about 10 % a step and
\* so not above the mean of 20 the rule asks for, detectAnomalies emits no
\* flag: hasAnomalies is false and confidenceScore is 0. For views growing by
\* half every step it emits ZERO_VARIANCE HIGH with confidence 95 and nothing
\* else, with confidenceScore 95.
C32_ZeroVarianceNeedsMeanAbove20 ==
    (bot.detected # None /\ bot.detected # Threw
        /\ PlatformOfData(bot.data) = "YOUTUBE") =>
        /\ HistoryOf(bot.data) = TenPercentHistory =>
              /\ bot.detected.flags = <<>>
              /\ ~bot.detected.hasAnomalies
              /\ bot.detected.confidenceScore.num = 0
        /\ HistoryOf(bot.data) = SteadyHistory =>
              /\ bot.detected.flags = <<Flag("ZERO_VARIANCE", "HIGH", 95)>>
              /\ bot.detected.hasAnomalies
              /\ bot.detected.confidenceScore.num
                    = 95 * bot.detected.confidenceScore.den

\* detectAnomalies ran on the 10 % history for YOUTUBE and found nothing
C32_Witness ==
    /\ bot.detected # None /\ bot.detected # Threw
    /\ PlatformOfData(bot.data) = "YOUTUBE"
    /\ HistoryOf(bot.data) = TenPercentHistory
    /\ bot.detected.flags = <<>>

\* detectAnomalies ran on the 50 % history for YOUTUBE: ZERO_VARIANCE
C32_WitnessSteady ==
    /\ bot.detected # None /\ bot.detected # Threw
    /\ PlatformOfData(bot.data) = "YOUTUBE"
    /\ HistoryOf(bot.data) = SteadyHistory
    /\ OfType(bot.detected.flags, "ZERO_VARIANCE") # {}

\* velocities[i] - velocities[i+1] of a history
Accelerations(history) ==
    LET velocities == Velocities(history)
    IN  [i \in 1..(Len(velocities) - 1) |-> velocities[i] - velocities[i + 1]]

\* C39: VELOCITY_ANOMALY is emitted only for an acceleration outlier: for a
\* history of 5 entries or more whose accelerations all have the same
\* magnitude, detectAnomalies emits no VELOCITY_ANOMALY flag.
C39_NoVelocityAnomalyWithoutOutlier ==
    (bot.detected # None /\ bot.detected # Threw
        /\ Len(HistoryOf(bot.data)) >= 5) =>
        LET a == Accelerations(HistoryOf(bot.data))
        IN  (\A i, j \in 1..Len(a) : Abs(a[i]) = Abs(a[j])) =>
                OfType(bot.detected.flags, "VELOCITY_ANOMALY") = {}

(***************************************************************************)
(* Properties of the event consumer                                         *)
(***************************************************************************)
\* the current invocation of the handler has returned or thrown
InvocationEnded == msg.attempts > 0 /\ msg.pc = "idle"

\* C13: every invocation of the clip.approved handler ends either with exactly
\* one acknowledgement, given after the clip lookup and (when the clip has a
\* platformVideoId) refreshClipStats completed without exception, or with a
\* rethrow and no acknowledgement; never both and never neither.
C13_AckOrRethrow ==
    msg.type = "clip.approved" =>
        /\ msg.invAcks <= 1
        /\ ~(msg.invAcks = 1 /\ msg.invThrew)
        /\ InvocationEnded => (msg.invAcks = 1 \/ msg.invThrew)
        /\ msg.invAcks = 1 =>
              msg.steps \in {<<"lookup without video", "ack">>,
                             <<"lookup with video", "refresh", "ack">>}
        /\ msg.invThrew =>
              /\ msg.steps[Len(msg.steps)] = "throw"
              /\ \A i \in 1..Len(msg.steps) : msg.steps[i] # "ack"

\* a clip.approved message acknowledged on its second attempt, after the
\* first one rethrew, with the refresh done in between lookup and ack
C13_Witness ==
    /\ msg.type = "clip.approved"
    /\ msg.attempts = 2 /\ msg.thrown = 1
    /\ msg.steps = <<"lookup with video", "refresh", "ack">>

\* the message is with the consumer: queued for an attempt or being handled
InFlight == msg.status \in {"queued", "handling"}

C14_WitnessAcked ==
    /\ msg.status = "acked"
    /\ msg.attempts = 3 /\ msg.thrown = 2

\* the run of refreshClipStats made by the current handler invocation
HandlerRefresh ==
    /\ msg.type = "clip.approved"
    /\ msg.steps # <<>> /\ msg.steps[1] = "lookup with video"

\* C15 as stated: for YOUTUBE, TIKTOK and TWITTER a failed upstream call makes
\* fetchPlatformStats fail, so refreshClipStats propagates the error without
\* writing the cache or publishing, and the clip.approved handler processing
\* the clip rethrows and the message is retried or dead-lettered, never acked.
C15_UpstreamFailurePropagates ==
    LET p == proc[HandlerProc]
    IN  (/\ HandlerRefresh
         /\ p.upstream = "failed"
         /\ p.clip.platform \in {"YOUTUBE", "TIKTOK", "TWITTER"})
            => /\ p.pc = "done" /\ p.outcome = "threw"
               /\ Calls(p, "setex") = {} /\ Calls(p, "publish") = {}
               /\ cache[KeyOf(p.clip)] = None
               /\ msg.invAcks = 0
               /\ InvocationEnded => msg.invThrew

\* C17 as stated: once the campaign.status_changed handler has acknowledged
\* an event {campaignId, newStatus}, the CampaignCache row of campaignId
\* exists and its status is newStatus.
C17_StatusChangedStored ==
    (msg.type = "campaign.status_changed" /\ msg.status = "acked") =>
        LET row == campaignCache[msg.payload.campaignId]
        IN  /\ row # None
            /\ row.status = msg.payload.newStatus

\* the acknowledged campaign.created message was written from its payload
CreatedAndUpserted ==
    /\ msg.type = "campaign.created" /\ msg.status = "acked"
    /\ msg.payload.title # ""
    /\ \E i \in 1..Len(msg.effects) :
          msg.effects[i].call = "upsert" /\ msg.effects[i].ok

\* C18: after the campaign.created handler has processed an event with a
\* non-empty title and the upsert succeeded, the CampaignCache row of
\* campaignId has that title, status ACTIVE and syncedAt equal to the time of
\* the upsert, which lies within the handling of the event, whether or not a
\* row existed before; the only call made is the upsert, none to
\* campaign-service.
C18_CreatedStored ==
    CreatedAndUpserted =>
        LET row == campaignCache[msg.payload.campaignId]
        IN  /\ row # None
            /\ row.title = msg.payload.title
            /\ row.status = "ACTIVE"
            /\ row.syncedAt = msg.effects[1].at
            /\ msg.deliveredAt <= row.syncedAt /\ row.syncedAt <= now
            /\ Len(msg.effects) = 1
            /\ \A i \in 1..Len(msg.effects) : msg.effects[i].call # "get"

\* the row of campaign k1, present before, overwritten at time 2 by a
\* campaign.created event carrying title T2
C18_Witness ==
    /\ CreatedAndUpserted
    /\ msg.payload = [campaignId |-> "k1", title |-> "T2"]
    /\ msg.effects[1].at = 2 /\ msg.effects[1].existed
    /\ campaignCache["k1"] = [title |-> "T2", status |-> "ACTIVE", syncedAt |-> 2]
    /\ campaignCache["k2"] # None

\* the first read of a getCampaignFromCache call found a row synced less
\* than 5 minutes before
FreshHit(p) ==
    /\ p.log[1].ok
    /\ p.log[1].arg.row # None
    /\ (p.log[1].arg.at - p.log[1].arg.row.syncedAt) * ClockStepMs
          < 5 * 60 * 1000

C34_WitnessFresh ==
    \E c \in Procs :
        LET p == proc[c]
        IN  /\ p.op = "getCampaign" /\ p.pc = "done" /\ p.outcome = "ok"
            /\ p.seen # None /\ p.log[1].arg.at - p.seen.syncedAt = 1
            /\ Len(p.log) = 1 /\ p.result = p.seen

\* a call without a client and without a row: absent is returned
C34_WitnessAbsent ==
    \E c \in Procs :
        LET p == proc[c]
        IN  /\ p.op = "getCampaign" /\ p.pc = "done" /\ p.outcome = "ok"
            /\ p.seen = None /\ Calls(p, "get") = {}
            /\ p.result = None

\* C35: over all delivery attempts of one clip.approved message at most one
\* stats.updated event is published: an attempt that throws has made no
\* publish call, since only the clip lookup and the platform fetch fail in
\* the handler and both come before the cache write and the publish; an
\* attempt that publishes goes on to acknowledge.
C35_OnePublishPerMessage ==
    msg.type = "clip.approved" =>
        /\ msg.publishes <= 1
        /\ msg.publishes = 1 => \/ msg.pc = "ack" /\ msg.status = "handling"
                                \/ msg.status = "acked"
        /\ (msg.pc = "refresh" /\ proc[HandlerProc].pc = "done"
               /\ proc[HandlerProc].outcome = "threw") =>
              /\ PublishCalls = 0
              /\ ~proc[HandlerProc].wrote
        /\ msg.status \in {"queued", "dead"} => msg.publishes = 0

\* a clip.approved message whose first attempts threw and whose last attempt
\* published once and acknowledged
C35_Witness ==
    /\ msg.type = "clip.approved" /\ msg.status = "acked"
    /\ msg.attempts = maxRetries /\ msg.thrown = maxRetries - 1
    /\ msg.publishes = 1
    /\ PublishCalls = 1

\* the two calls have both returned, for the same cache key
BothFinished ==
    /\ \A c \in Procs :
          /\ proc[c].op = "refresh" /\ proc[c].pc = "done"
          /\ proc[c].outcome = "ok"
    /\ KeyOf(proc["p1"].clip) = KeyOf(proc["p2"].clip)

Counters(r) ==
    [views |-> r.views, likes |-> r.likes,
     comments |-> r.comments, shares |-> r.shares]

\* C36: once two concurrent refreshClipStats calls for one (platform,
\* videoId) have both finished, the cache entry holds the stats of the call
\* whose fetch completed last, and its tuple is the tuple of the last
\* stats.updated event published for the clip.
C36_LastFetchWins ==
    BothFinished =>
        \A c, d \in Procs :
            LET entry == cache[KeyOf(proc[c].clip)]
            IN  /\ proc[c].fetchedAt > proc[d].fetchedAt =>
                      /\ entry # None
                      /\ entry.value = JSONstringify(proc[c].stats)
                /\ proc[c].publishedAt > proc[d].publishedAt =>
                      /\ entry # None
                      /\ Counters(entry.value) = Counters(proc[c].stats)

CampaignTypes == {"campaign.created", "campaign.status_changed"}

\* the sync of the attempt in progress met a failed request or upsert
SyncFailed(m) ==
    \E j \in 1..Len(m.effects) : ~m.effects[j].ok

\* C38: syncCampaignCache never throws: a campaign.created or
\* campaign.status_changed message is acknowledged on its first attempt,
\* never retried and never dead-lettered, also when the upsert or the pull
\* from campaign-service fails, and a failed sync leaves CampaignCache as it
\* was.
C38_CampaignSyncNeverThrows ==
    /\ [](msg.type \in CampaignTypes =>
             /\ msg.thrown = 0 /\ msg.attempts <= 1
             /\ msg.status # "dead"
             /\ msg.status = "acked" => msg.attempts = 1 /\ msg.acks = 1)
    /\ [][(msg.type \in CampaignTypes /\ msg.pc = "sync" /\ msg'.pc # "sync")
            => /\ msg'.pc = "ack" /\ msg'.status = "handling"
               /\ SyncFailed(msg') => campaignCache' = campaignCache]_vars

\* a status change acknowledged on its first attempt after the pull failed,
\* the row of the campaign still as the earlier event wrote it
C38_Witness ==
    /\ msg.type = "campaign.status_changed" /\ msg.status = "acked"
    /\ msg.attempts = 1 /\ msg.thrown = 0
    /\ SyncFailed(msg)
    /\ campaignCache[msg.payload.campaignId] # None
    /\ campaignCache[msg.payload.campaignId].status = "ACTIVE"

\* a campaign.created message acknowledged on its first attempt after its
\* upsert failed, no row written
C38_WitnessUpsert ==
    /\ msg.type = "campaign.created" /\ msg.status = "acked"
    /\ msg.attempts = 1 /\ SyncFailed(msg)
    /\ campaignCache[msg.payload.campaignId] = None

(***************************************************************************)
(* Properties of the scheduler and of shutdown                              *)
(***************************************************************************)
\* C19: no error raised inside a scheduler tick (needs-refresh fetch,
\* batchRefreshStats, either ranking calculation) leaves the tick callback:
\* every failed tick logged its error and ended, and the job is ready for
\* its later ticks.
C19_TickErrorsCaught ==
    /\ \A j \in {"hourly", "daily"} :
          LET job == sched[j]
          IN  /\ job.escaped = 0
              /\ Len(job.logged) = job.failed
              /\ job.failed <= job.ticks
              /\ \A i \in 1..Len(job.logged) : job.logged[i] \in 1..job.ticks
              /\ (job.failed = job.ticks) => job.pc = "idle"
    /\ (/\ sched.daily.pc = "idle"
        /\ \E r \in RunIds : Settles(r, "threw"))
          => sched.daily.ticks \in
                {sched.daily.logged[i] : i \in 1..Len(sched.daily.logged)}

\* the hourly job failed in its first tick and finished a batch in its
\* second, next to a daily tick that failed and was logged
C19_Witness ==
    /\ sched.hourly.ticks = 2 /\ sched.hourly.logged = <<1>>
    /\ sched.hourly.pc = "idle"
    /\ proc[SchedProc].op = "batch" /\ proc[SchedProc].pc = "done"
    /\ sched.daily.ticks = 1 /\ sched.daily.logged = <<1>>
    /\ sched.daily.pc = "idle"

\* the daily job failed in its first tick and finished both calculations in
\* its second
C19_WitnessDaily ==
    /\ sched.daily.ticks = 2 /\ sched.daily.logged = <<1>>
    /\ sched.daily.pc = "idle"
    /\ \A r \in RunIds : Settles(r, "ok")

\* position of the first occurrence of step in the shutdown log, 0 if absent
FirstAt(step) ==
    IF \E i \in 1..Len(life.log) : life.log[i] = step
    THEN CHOOSE i \in 1..Len(life.log) :
            /\ life.log[i] = step
            /\ \A j \in 1..(i - 1) : life.log[j] # step
    ELSE 0

\* C20 as stated: when the process exits on SIGTERM or SIGINT, the consumer
\* was stopped, then the publisher disconnected, then the cache connection
\* and the database connection closed, and only then the exit happened; each
\* of these steps occurred before the exit.
C20_ShutdownOrder ==
    life.exited =>
        /\ FirstAt("consumer.stop") > 0
        /\ FirstAt("consumer.stop") < FirstAt("publisher.disconnect")
        /\ FirstAt("publisher.disconnect") < FirstAt("redis.quit")
        /\ FirstAt("publisher.disconnect") < FirstAt("prisma.$disconnect")
        /\ FirstAt("redis.quit") < FirstAt("process.exit")
        /\ FirstAt("prisma.$disconnect") < FirstAt("process.exit")

\* C27: batchRefreshStats is never invoked with more than 500 clips, whoever
\* the caller is: the route, the hourly tick or the stats-update job.
C27_BatchAtMost500 ==
    \A c \in Procs :
        proc[c].op = "batch" => Len(proc[c].clips) <= MaxBatchClips

====
